---- MODULE Spec2Model ----
(***************************************************************************)
(* flowbridge: the task store and its lifecycle operations                 *)
(* (src/src/main.rs), the command line front end (main) and the            *)
(* interactive board controller (src/src/tui.rs).                          *)
(*                                                                         *)
(* Text is a sequence of characters; a task is a record with the fields of *)
(* struct Task (created_at is a timestamp nothing depends on and is left   *)
(* out).  The data file is either missing or holds the serialised store.   *)
(***************************************************************************)
EXTENDS Integers, Sequences, FiniteSets, TLC

\* ------------------------------------------------------------------ bounds
\* Largest value the id counter may have when a task is added.
MaxId == 1
\* Largest number of steps a user enters for one task.
MaxSteps == 2
\* Largest number of characters a user types into one text.
MaxStrLen == 1
\* Largest number of keys pressed while one drag session stays open.
MaxDragKeys == 2
\* The same limits for the command line taken alone.
CliMaxId == 2
CliMaxSteps == 3
\* Largest number of tasks on the board when only the pointer is used.
PointerMaxTasks == 3
\* Largest number of characters typed into the form when text is not ASCII.
TextMaxLen == 2
\* With such text: the largest id counter at a submit, the most pending steps.
TextMaxId == 1
TextMaxSteps == 1
\* Largest number of tasks in a data file written by an older version.
LoadMaxTasks == 2
KeysMaxTasks == 2
SelectMaxTasks == 4
FormMaxId == 1
FormMaxSteps == 2
FormMaxLen == 1
WebMaxId == 1
WebMaxComments == 1
WebMaxTime == 1

\* ------------------------------------------------------------- vocabulary
Chars == {"x"}

NotStarted == "NotStarted"
InProgress == "InProgress"
Blocked == "Blocked"
Complete == "Complete"

\* Option<T>: None is the empty sequence, Some(v) the one-element sequence.
None == <<>>
Some(v) == <<v>>
\* The data file does not exist.
NoFile == None

RECURSIVE StringsOfLen(_)
StringsOfLen(n) ==
    IF n = 0 THEN {<<>>}
    ELSE {Append(s, c) : s \in StringsOfLen(n - 1), c \in Chars}

Strings(n) == UNION {StringsOfLen(k) : k \in 0..n}

\* The step lists the break-down prompt can collect: at least one step,
\* none of them empty.
StepLists(maxSteps, maxLen) ==
    UNION {[1..k -> Strings(maxLen) \ {<<>>}] : k \in 1..maxSteps}

\* ----------------------------------------------------------- the store
new == [tasks |-> <<>>, next_id |-> 1]

NewTask(id, description) ==
    [id |-> id, description |-> description, steps |-> <<>>,
     current_step |-> 0, status |-> NotStarted, completed |-> None]

\* Mutant of add_task: the id is the number of tasks plus one.
add_task_by_count(s, description) ==
    [store |-> [tasks |-> Append(s.tasks, NewTask(Len(s.tasks) + 1, description)),
                next_id |-> Len(s.tasks) + 2],
     ret |-> Some(Len(s.tasks) + 1)]

add_task(s, description) ==
    [store |-> [tasks |-> Append(s.tasks, NewTask(s.next_id, description)),
                next_id |-> s.next_id + 1],
     ret |-> Some(s.next_id)]

HasTask(s, id) == \E i \in 1..Len(s.tasks) : s.tasks[i].id = id

\* Mutant of get_task_mut: an id nobody has falls back to the first task.
get_task_mut_fallback(s, id) ==
    IF HasTask(s, id)
    THEN CHOOSE i \in 1..Len(s.tasks) :
            /\ s.tasks[i].id = id
            /\ \A j \in 1..(i - 1) : s.tasks[j].id # id
    ELSE IF Len(s.tasks) > 0 THEN 1 ELSE 0

\* Position of the first task with this id (iter_mut().find), 0 if none.
get_task_mut(s, id) ==
    IF HasTask(s, id)
    THEN CHOOSE i \in 1..Len(s.tasks) :
            /\ s.tasks[i].id = id
            /\ \A j \in 1..(i - 1) : s.tasks[j].id # id
    ELSE 0

TaskOf(s, id) == s.tasks[get_task_mut(s, id)]

SetTask(s, i, t) == [s EXCEPT !.tasks[i] = t]

WithSteps(t) ==
    /\ t.status # Complete
    /\ t.status # Blocked
    /\ Len(t.steps) # 0
    /\ t.current_step < Len(t.steps)

WithoutSteps(t) ==
    /\ t.status # Complete
    /\ t.status # Blocked
    /\ Len(t.steps) = 0

\* iter().filter(..).next(): the least of the matching task indices, 0 if none.
FirstWhere(s, matching) ==
    IF matching = {} THEN 0
    ELSE CHOOSE i \in matching : \A j \in matching : i <= j

\* Mutant of get_next_action: the chosen task is not promoted.
get_next_action_no_promote(s) ==
    LET a == FirstWhere(s, {i \in 1..Len(s.tasks) : WithSteps(s.tasks[i])})
        b == FirstWhere(s, {i \in 1..Len(s.tasks) : WithoutSteps(s.tasks[i])})
        i == IF a # 0 THEN a ELSE b
    IN  IF i = 0 THEN [store |-> s, ret |-> None]
        ELSE [store |-> s, ret |-> Some(s.tasks[i])]

\* Mutant of get_next_action: the two searches run in the other order.
get_next_action_stepless_first(s) ==
    LET a == FirstWhere(s, {i \in 1..Len(s.tasks) : WithoutSteps(s.tasks[i])})
        b == FirstWhere(s, {i \in 1..Len(s.tasks) : WithSteps(s.tasks[i])})
        i == IF a # 0 THEN a ELSE b
    IN  IF i = 0 THEN [store |-> s, ret |-> None]
        ELSE LET k == get_task_mut(s, s.tasks[i].id)
                 t == s.tasks[k]
                 u == IF t.status = NotStarted
                      THEN [t EXCEPT !.status = InProgress] ELSE t
             IN  [store |-> SetTask(s, k, u), ret |-> Some(u)]

get_next_action(s) ==
    LET a == FirstWhere(s, {i \in 1..Len(s.tasks) : WithSteps(s.tasks[i])})
        b == FirstWhere(s, {i \in 1..Len(s.tasks) : WithoutSteps(s.tasks[i])})
        i == IF a # 0 THEN a ELSE b
    IN  IF i = 0 THEN [store |-> s, ret |-> None]
        ELSE LET k == get_task_mut(s, s.tasks[i].id)
                 t == s.tasks[k]
                 u == IF t.status = NotStarted
                      THEN [t EXCEPT !.status = InProgress] ELSE t
             IN  [store |-> SetTask(s, k, u), ret |-> Some(u)]

\* Mutant of complete_task: the index moves on whenever the task has steps.
complete_task_unbounded(s, id) ==
    LET i == get_task_mut(s, id) IN
    IF i = 0 THEN [store |-> s, ret |-> FALSE]
    ELSE LET t == s.tasks[i] IN
         IF Len(t.steps) # 0
         THEN [store |-> SetTask(s, i, [t EXCEPT !.current_step = @ + 1]),
               ret |-> TRUE]
         ELSE [store |-> SetTask(s, i, [t EXCEPT !.status = Complete]),
               ret |-> TRUE]

\* Mutant of complete_task: the last step is compared with len, not len - 1.
complete_task_off_by_one(s, id) ==
    LET i == get_task_mut(s, id) IN
    IF i = 0 THEN [store |-> s, ret |-> FALSE]
    ELSE LET t == s.tasks[i] IN
         IF Len(t.steps) # 0 /\ t.current_step < Len(t.steps)
         THEN [store |-> SetTask(s, i, [t EXCEPT !.current_step = @ + 1]),
               ret |-> TRUE]
         ELSE [store |-> SetTask(s, i, [t EXCEPT !.status = Complete]),
               ret |-> TRUE]

complete_task(s, id) ==
    LET i == get_task_mut(s, id) IN
    IF i = 0 THEN [store |-> s, ret |-> FALSE]
    ELSE LET t == s.tasks[i] IN
         IF Len(t.steps) # 0 /\ t.current_step < Len(t.steps) - 1
         THEN [store |-> SetTask(s, i, [t EXCEPT !.current_step = @ + 1]),
               ret |-> TRUE]
         ELSE [store |-> SetTask(s, i, [t EXCEPT !.status = Complete]),
               ret |-> TRUE]

\* Mutant of block_task: a Complete task is blocked like any other.
block_task_unguarded(s, id) ==
    LET i == get_task_mut(s, id) IN
    IF i # 0
    THEN [store |-> SetTask(s, i, [s.tasks[i] EXCEPT !.status = Blocked]),
          ret |-> TRUE]
    ELSE [store |-> s, ret |-> FALSE]

block_task(s, id) ==
    LET i == get_task_mut(s, id) IN
    IF i # 0 /\ s.tasks[i].status # Complete
    THEN [store |-> SetTask(s, i, [s.tasks[i] EXCEPT !.status = Blocked]),
          ret |-> TRUE]
    ELSE [store |-> s, ret |-> FALSE]

\* Mutant of unblock_task: any task that is not Complete is unblocked.
unblock_task_unguarded(s, id) ==
    LET i == get_task_mut(s, id) IN
    IF i # 0 /\ s.tasks[i].status # Complete
    THEN LET t == s.tasks[i]
             st == IF t.current_step > 0 \/ Len(t.steps) # 0
                   THEN InProgress ELSE NotStarted
         IN  [store |-> SetTask(s, i, [t EXCEPT !.status = st]), ret |-> TRUE]
    ELSE [store |-> s, ret |-> FALSE]

\* Mutant of unblock_task: the task always goes back to NotStarted.
unblock_task_to_not_started(s, id) ==
    LET i == get_task_mut(s, id) IN
    IF i # 0 /\ s.tasks[i].status = Blocked
    THEN [store |-> SetTask(s, i, [s.tasks[i] EXCEPT !.status = NotStarted]),
          ret |-> TRUE]
    ELSE [store |-> s, ret |-> FALSE]

unblock_task(s, id) ==
    LET i == get_task_mut(s, id) IN
    IF i # 0 /\ s.tasks[i].status = Blocked
    THEN LET t == s.tasks[i]
             st == IF t.current_step > 0 \/ Len(t.steps) # 0
                   THEN InProgress ELSE NotStarted
         IN  [store |-> SetTask(s, i, [t EXCEPT !.status = st]), ret |-> TRUE]
    ELSE [store |-> s, ret |-> FALSE]

\* Mutant of reset_task: a Complete task is reset like any other.
reset_task_unguarded(s, id) ==
    LET i == get_task_mut(s, id) IN
    IF i # 0
    THEN [store |-> SetTask(s, i, [s.tasks[i] EXCEPT !.status = NotStarted]),
          ret |-> TRUE]
    ELSE [store |-> s, ret |-> FALSE]

\* Mutant of reset_task: the step index is rewound as well.
reset_task_rewinds(s, id) ==
    LET i == get_task_mut(s, id) IN
    IF i # 0 /\ s.tasks[i].status # Complete
    THEN [store |-> SetTask(s, i, [s.tasks[i] EXCEPT !.status = NotStarted,
                                                      !.current_step = 0]),
          ret |-> TRUE]
    ELSE [store |-> s, ret |-> FALSE]

reset_task(s, id) ==
    LET i == get_task_mut(s, id) IN
    IF i # 0 /\ s.tasks[i].status # Complete
    THEN [store |-> SetTask(s, i, [s.tasks[i] EXCEPT !.status = NotStarted]),
          ret |-> TRUE]
    ELSE [store |-> s, ret |-> FALSE]

remove_task(s, id) ==
    LET kept == SelectSeq(s.tasks, LAMBDA t : t.id # id) IN
    [store |-> [s EXCEPT !.tasks = kept], ret |-> Len(kept) < Len(s.tasks)]

\* ------------------------------------------------------- the data file
\* serde: `completed` is written only when it is Some.
SerializeTask(t) ==
    IF t.completed = None
    THEN [id |-> t.id, description |-> t.description, steps |-> t.steps,
          current_step |-> t.current_step, status |-> t.status]
    ELSE [id |-> t.id, description |-> t.description, steps |-> t.steps,
          current_step |-> t.current_step, status |-> t.status,
          completed |-> t.completed]

\* serde: `status` has a default, `completed` is an Option and may be absent
\* (or null, which is None here).
DeserializeTask(r) ==
    [id |-> r.id, description |-> r.description, steps |-> r.steps,
     current_step |-> r.current_step,
     status |-> IF "status" \in DOMAIN r THEN r.status ELSE NotStarted,
     completed |-> IF "completed" \in DOMAIN r THEN r.completed ELSE None]

\* serde_json::from_str::<TaskStore>: Some(store), or None when the content
\* is not the JSON of a store (a field without default is missing).
from_str(content) ==
    IF /\ {"tasks", "next_id"} \subseteq DOMAIN content
       /\ \A i \in 1..Len(content.tasks) :
             {"id", "description", "steps", "current_step"}
                \subseteq DOMAIN content.tasks[i]
    THEN Some([tasks |-> [i \in 1..Len(content.tasks) |->
                            DeserializeTask(content.tasks[i])],
               next_id |-> content.next_id])
    ELSE None

\* Mutant of the migration: only completed = true changes the status.
Migrate_true_only(t) ==
    IF t.completed # None
    THEN [t EXCEPT !.status = IF t.completed[1] THEN Complete ELSE @,
                   !.completed = None]
    ELSE t

Migrate(t) ==
    IF t.completed # None
    THEN [t EXCEPT !.status = IF t.completed[1] THEN Complete ELSE NotStarted,
                   !.completed = None]
    ELSE t

\* The data file after TaskStore::save.
save(s) ==
    Some([tasks |-> [i \in 1..Len(s.tasks) |-> SerializeTask(s.tasks[i])],
          next_id |-> s.next_id])

\* An unreadable file reads as the empty text, which does not parse either.
load(file) ==
    IF file = NoFile THEN new
    ELSE LET parsed == from_str(file[1])
             s == IF parsed = None THEN new ELSE parsed[1]
         IN  [s EXCEPT !.tasks = [i \in 1..Len(s.tasks) |-> Migrate(s.tasks[i])]]


\* ------------------------------------------------------------- the state
VARIABLES
    disk,   \* the data file: NoFile or the content save wrote
    store,  \* the TaskStore of the running process (of the last one, once it exited)
    pc,     \* "shell": no process; "main": main loaded the store; "board": App::run's loop
    app,    \* the fields of struct App other than the store
    last,   \* the last command or event: its name, the id given, what it returned,
            \* and whether it fired the completion chime
    drag_keys_left \* keys the user still presses before the open drag session ends

vars == <<disk, store, pc, app, last, drag_keys_left>>

TaskFormDefault ==
    [description |-> <<>>, steps |-> <<>>, current_step_input |-> <<>>,
     active_field |-> 0]

AppNew ==
    [mode |-> "Navigate", selected_column |-> 0, selected_task |-> None,
     should_quit |-> FALSE, form |-> TaskFormDefault, edit_buffer |-> <<>>,
     editing_task_id |-> None, deleting_task_id |-> None,
     dragging_task |-> None, drag_target_column |-> None]

Ev(name, id, ret, chime) == [ev |-> name, id |-> id, ret |-> ret, chime |-> chime]

Init ==
    /\ disk = NoFile
    /\ store = new
    /\ pc = "shell"
    /\ app = AppNew
    /\ last = Ev("none", None, None, FALSE)
    /\ drag_keys_left = 0

\* --------------------------------------------------------- command line
\* main: let mut store = TaskStore::load();
MainLoad ==
    /\ pc = "shell"
    /\ pc' = "main"
    /\ store' = load(disk)
    /\ last' = Ev("load", None, None, FALSE)
    /\ UNCHANGED <<disk, app, drag_keys_left>>

\* A command that ends the process; `saved` says whether store.save() ran.
Exit(name, id, r, saved) ==
    /\ pc = "main"
    /\ pc' = "shell"
    /\ store' = r.store
    /\ disk' = IF saved THEN save(r.store) ELSE disk
    /\ last' = Ev(name, id, r.ret, FALSE)
    /\ UNCHANGED <<app, drag_keys_left>>

CmdAdd(maxId, descriptions) ==
    \E desc \in descriptions :
        IF desc = <<>>
        THEN Exit("add", None, [store |-> store, ret |-> None], FALSE)
        ELSE /\ store.next_id <= maxId
             /\ Exit("add", None, add_task(store, desc), TRUE)

CmdStart ==
    Exit("start", None, get_next_action(store), FALSE)

\* Mutant of the break command: the position in the old steps is kept.
CmdBreak_keeps_position(ids, stepLists) ==
    \E id \in ids :
        IF ~HasTask(store, id)
        THEN Exit("break", Some(id), [store |-> store, ret |-> FALSE], FALSE)
        ELSE \E steps \in stepLists :
                LET i == get_task_mut(store, id)
                    t == [store.tasks[i] EXCEPT !.steps = steps]
                IN  Exit("break", Some(id), [store |-> SetTask(store, i, t), ret |-> TRUE], TRUE)

CmdBreak(ids, stepLists) ==
    \E id \in ids :
        IF ~HasTask(store, id)
        THEN Exit("break", Some(id), [store |-> store, ret |-> FALSE], FALSE)
        ELSE \E steps \in stepLists :
                LET i == get_task_mut(store, id)
                    t == [store.tasks[i] EXCEPT !.steps = steps, !.current_step = 0]
                IN  Exit("break", Some(id), [store |-> SetTask(store, i, t), ret |-> TRUE], TRUE)

CmdDone(ids) ==
    \E id \in ids :
        LET r == complete_task(store, id) IN Exit("done", Some(id), r, r.ret)

CmdBlock(ids) ==
    \E id \in ids :
        LET r == block_task(store, id) IN Exit("block", Some(id), r, r.ret)

CmdUnblock(ids) ==
    \E id \in ids :
        LET r == unblock_task(store, id) IN Exit("unblock", Some(id), r, r.ret)

CmdReset(ids) ==
    \E id \in ids :
        LET r == reset_task(store, id) IN Exit("reset", Some(id), r, r.ret)

CmdRemove(ids) ==
    \E id \in ids :
        LET r == remove_task(store, id) IN Exit("remove", Some(id), r, r.ret)

CmdList ==
    Exit("list", None, [store |-> store, ret |-> None], FALSE)

\* Commands::Board: App::new(store), then App::run.
CmdBoard ==
    /\ pc = "main"
    /\ pc' = "board"
    /\ app' = AppNew
    /\ last' = Ev("board", None, None, FALSE)
    /\ UNCHANGED <<disk, store, drag_keys_left>>

\* App::run: the loop ends once should_quit is set, and main returns.
RunReturn ==
    /\ pc = "board"
    /\ app.should_quit
    /\ pc' = "shell"
    /\ app' = AppNew
    /\ last' = Ev("exit", None, None, FALSE)
    /\ drag_keys_left' = 0
    /\ UNCHANGED <<disk, store>>


\* ------------------------------------------------------------ the board
\* ui(): the four column rectangles of the frame drawn before each event.
column_areas ==
    [c \in 0..3 |-> [x |-> 1 + 11 * c, y |-> 0, width |-> 11, height |-> 13]]

\* The terminal cells a pointer event can name: a cell left of the board and
\* the leftmost cell of each column; every row of the board and the row
\* below it.
PointerXs == {0} \cup {column_areas[c].x : c \in 0..3}
PointerYs == 0..13
\* Of these rows, those that differ for a column of one card: the top border,
\* the rows of a card and the row after it, the bottom border, the row below.
BoardRows == {0, 1, 3, 4, 5, 12, 13}
\* Rows of a release: one inside the columns, one below them.
ReleaseRows == {1, 13}

\* Mutant of the column match: the arms for columns 2 and 3 are swapped.
StatusOfColumn_swapped(col) ==
    CASE col = 0 -> NotStarted
      [] col = 1 -> InProgress
      [] col = 2 -> Complete
      [] OTHER -> Blocked

StatusOfColumn(col) ==
    CASE col = 0 -> NotStarted
      [] col = 1 -> InProgress
      [] col = 2 -> Blocked
      [] OTHER -> Complete

current_status == StatusOfColumn(app.selected_column)

get_tasks_by_status(s, status) ==
    SelectSeq(s.tasks, LAMBDA t : t.status = status)

\* tasks.get(idx) with a 0-based idx.
get_selected_task_id ==
    LET tasks == get_tasks_by_status(store, current_status) IN
    IF app.selected_task # None /\ app.selected_task[1] < Len(tasks)
    THEN Some(tasks[app.selected_task[1] + 1].id)
    ELSE None

\* ---- ui: the frame drawn at the top of each turn of App::run's loop
saturating_sub(a, b) == IF a >= b THEN a - b ELSE 0

card_height(t) == IF t.steps = <<>> THEN 3 ELSE 4

\* The line at which card k (1-based) of the list begins.
RECURSIVE CardTop(_, _)
CardTop(tasks, k) ==
    IF k = 1 THEN 0 ELSE CardTop(tasks, k - 1) + card_height(tasks[k - 1])

\* char::len_utf8 for the characters of the model: "x" and the punctuation
\* and digits of a card are ASCII, "é" takes two bytes.
len_utf8(c) == IF c = "é" THEN 2 ELSE 1

\* str::len: the length in bytes.
RECURSIVE str_len(_)
str_len(str) ==
    IF str = <<>> THEN 0 ELSE len_utf8(Head(str)) + str_len(Tail(str))

is_char_boundary(str, n) ==
    \E k \in 0..Len(str) : str_len(SubSeq(str, 1, k)) = n

\* format!("{}", id)
Digits == <<"0", "1", "2", "3", "4", "5", "6", "7", "8", "9">>

id_text(id) ==
    IF id < 10 THEN <<Digits[id + 1]>>
    ELSE <<Digits[(id \div 10) + 1], Digits[(id % 10) + 1]>>

\* format!("#{} {}", task.id, task.description)
desc_text(t) == <<"#">> \o id_text(t.id) \o <<" ">> \o t.description

\* render_card: &desc_text[..width - 5] panics when the description is cut
\* inside a character.
render_card_panics(t, width) ==
    /\ str_len(desc_text(t)) > saturating_sub(width, 4)
    /\ ~is_char_boundary(desc_text(t), saturating_sub(width, 5))

\* render_column: the cards are drawn from the top until one does not fit.
CardDrawn(tasks, k, inner_height) ==
    CardTop(tasks, k) + card_height(tasks[k]) <= inner_height

render_column_panics(area, tasks) ==
    \E k \in 1..Len(tasks) :
        /\ CardDrawn(tasks, k, saturating_sub(area.height, 2))
        /\ render_card_panics(tasks[k], saturating_sub(area.width, 2))

\* terminal.draw(|f| self.ui(f)) panics.
ui_panics ==
    \E c \in 0..3 :
        render_column_panics(column_areas[c],
                             get_tasks_by_status(store, StatusOfColumn(c)))

\* App::run: the frame cannot be drawn, the panic ends the process.
DrawPanic ==
    /\ pc = "board"
    /\ ~app.should_quit
    /\ ui_panics
    /\ pc' = "shell"
    /\ app' = AppNew
    /\ last' = Ev("panic", None, None, FALSE)
    /\ drag_keys_left' = 0
    /\ UNCHANGED <<disk, store>>

\* handle_events read one event, after the frame was drawn.
Tick(mode) ==
    /\ pc = "board"
    /\ ~app.should_quit
    /\ ~ui_panics
    /\ app.mode = mode

\* The event is a key press, dispatched by mode.
Key(mode) ==
    /\ Tick(mode)
    /\ IF app.dragging_task # None
       THEN drag_keys_left > 0 /\ drag_keys_left' = drag_keys_left - 1
       ELSE drag_keys_left' = drag_keys_left

\* The event is a mouse event and the mode is Navigate.
Mouse ==
    Tick("Navigate")

KeyEv == Ev("key", None, None, FALSE)
\* The key was one a handler has an arm for: the arrows are "Left", "Right",
\* "Up_key", "Down_key", a character key is its character.
KeyNamed(key) == Ev(key, None, None, FALSE)
\* The key was Enter.
EnterEv == KeyNamed("Enter")
\* The key was Esc (in ConfirmDelete: Esc or 'n'), pressed in the mode app.mode.
EscEv == Ev("Esc", None, Some(app.mode), FALSE)

\* ---- handle_navigate_keys
NavQuit ==
    /\ Key("Navigate")
    /\ app' = [app EXCEPT !.should_quit = TRUE]
    /\ last' = KeyEv
    /\ UNCHANGED <<disk, store, pc>>

NavAdd ==
    /\ Key("Navigate")
    /\ app' = [app EXCEPT !.mode = "AddTask", !.form = TaskFormDefault]
    /\ last' = KeyEv
    /\ UNCHANGED <<disk, store, pc>>

NavLeft ==
    /\ Key("Navigate")
    /\ app' = IF app.selected_column > 0
              THEN [app EXCEPT !.selected_column = @ - 1, !.selected_task = None]
              ELSE app
    /\ last' = KeyNamed("Left")
    /\ UNCHANGED <<disk, store, pc>>

\* Mutant of the Right arm: past the last lane the selection wraps to lane 0.
NavRight_wraps ==
    /\ Key("Navigate")
    /\ app' = [app EXCEPT !.selected_column = (@ + 1) % 4, !.selected_task = None]
    /\ last' = KeyNamed("Right")
    /\ UNCHANGED <<disk, store, pc>>

NavRight ==
    /\ Key("Navigate")
    /\ app' = IF app.selected_column < 3
              THEN [app EXCEPT !.selected_column = @ + 1, !.selected_task = None]
              ELSE app
    /\ last' = KeyNamed("Right")
    /\ UNCHANGED <<disk, store, pc>>

select_next_task ==
    LET n == Len(get_tasks_by_status(store, current_status)) IN
    IF n = 0 THEN app
    ELSE [app EXCEPT !.selected_task =
            IF @ = None THEN Some(0)
            ELSE IF @[1] >= n - 1 THEN Some(n - 1)
            ELSE Some(@[1] + 1)]

select_previous_task ==
    LET n == Len(get_tasks_by_status(store, current_status)) IN
    IF n = 0 THEN app
    ELSE [app EXCEPT !.selected_task =
            IF @ = None THEN Some(0)
            ELSE IF @[1] = 0 THEN Some(0)
            ELSE Some(@[1] - 1)]

NavUp ==
    /\ Key("Navigate")
    /\ app' = select_previous_task
    /\ last' = KeyNamed("Up_key")
    /\ UNCHANGED <<disk, store, pc>>

NavDown ==
    /\ Key("Navigate")
    /\ app' = select_next_task
    /\ last' = KeyNamed("Down_key")
    /\ UNCHANGED <<disk, store, pc>>

\* A handler that calls a store operation on the selected task, saves, and
\* clears the selection when `deselect` holds of the resulting store.
move_to_not_started ==
    LET sel == get_selected_task_id IN
    /\ Key("Navigate")
    /\ IF sel # None
       THEN LET r == reset_task(store, sel[1]) IN
            /\ store' = r.store
            /\ disk' = save(r.store)
            /\ app' = [app EXCEPT !.selected_task = None]
            /\ last' = KeyNamed("n")
       ELSE /\ last' = KeyNamed("n")
            /\ UNCHANGED <<disk, store, app>>
    /\ UNCHANGED pc

\* Mutant of the force-InProgress key: a Complete task is left alone.
move_to_in_progress_guarded ==
    LET sel == get_selected_task_id IN
    /\ Key("Navigate")
    /\ IF sel # None /\ HasTask(store, sel[1]) /\ TaskOf(store, sel[1]).status # Complete
       THEN LET i == get_task_mut(store, sel[1])
                s == SetTask(store, i, [store.tasks[i] EXCEPT !.status = InProgress])
            IN  /\ store' = s
                /\ disk' = save(s)
                /\ app' = [app EXCEPT !.selected_task = None]
                /\ last' = KeyNamed("i")
       ELSE /\ last' = KeyNamed("i")
            /\ UNCHANGED <<disk, store, app>>
    /\ UNCHANGED pc

move_to_in_progress ==
    LET sel == get_selected_task_id IN
    /\ Key("Navigate")
    /\ IF sel # None /\ HasTask(store, sel[1])
       THEN LET i == get_task_mut(store, sel[1])
                s == SetTask(store, i, [store.tasks[i] EXCEPT !.status = InProgress])
            IN  /\ store' = s
                /\ disk' = save(s)
                /\ app' = [app EXCEPT !.selected_task = None]
                /\ last' = KeyNamed("i")
       ELSE /\ last' = KeyNamed("i")
            /\ UNCHANGED <<disk, store, app>>
    /\ UNCHANGED pc

move_to_blocked ==
    LET sel == get_selected_task_id IN
    /\ Key("Navigate")
    /\ IF sel # None
       THEN LET r == block_task(store, sel[1]) IN
            /\ store' = r.store
            /\ disk' = save(r.store)
            /\ app' = [app EXCEPT !.selected_task = None]
            /\ last' = KeyNamed("b")
       ELSE /\ last' = KeyNamed("b")
            /\ UNCHANGED <<disk, store, app>>
    /\ UNCHANGED pc

\* App::complete_task ('d' or space): the chime plays when the task's status
\* is Complete after the call.
app_complete_task ==
    LET sel == get_selected_task_id IN
    /\ Key("Navigate")
    /\ IF sel # None
       THEN LET r == complete_task(store, sel[1])
                done == /\ HasTask(r.store, sel[1])
                        /\ TaskOf(r.store, sel[1]).status = Complete
            IN  /\ store' = r.store
                /\ disk' = save(r.store)
                /\ app' = IF done THEN [app EXCEPT !.selected_task = None] ELSE app
                /\ last' = Ev("d", None, None, done)
       ELSE /\ last' = KeyNamed("d")
            /\ UNCHANGED <<disk, store, app>>
    /\ UNCHANGED pc

\* App::remove_task ('r'): opens the confirmation.
app_remove_task ==
    LET sel == get_selected_task_id IN
    /\ Key("Navigate")
    /\ app' = IF sel # None
              THEN [app EXCEPT !.deleting_task_id = sel, !.mode = "ConfirmDelete"]
              ELSE app
    /\ last' = KeyNamed("r")
    /\ UNCHANGED <<disk, store, pc>>

\* Mutant of the undo key: the task goes back to its first step.
undo_step_to_first ==
    LET sel == get_selected_task_id IN
    /\ Key("Navigate")
    /\ IF /\ sel # None
          /\ HasTask(store, sel[1])
          /\ TaskOf(store, sel[1]).current_step > 0
       THEN LET i == get_task_mut(store, sel[1])
                s == SetTask(store, i, [store.tasks[i] EXCEPT !.current_step = 0])
            IN  /\ store' = s
                /\ disk' = save(s)
       ELSE UNCHANGED <<disk, store>>
    /\ last' = KeyNamed("u")
    /\ UNCHANGED <<pc, app>>

undo_step ==
    LET sel == get_selected_task_id IN
    /\ Key("Navigate")
    /\ IF /\ sel # None
          /\ HasTask(store, sel[1])
          /\ TaskOf(store, sel[1]).current_step > 0
       THEN LET i == get_task_mut(store, sel[1])
                s == SetTask(store, i, [store.tasks[i] EXCEPT !.current_step = @ - 1])
            IN  /\ store' = s
                /\ disk' = save(s)
       ELSE UNCHANGED <<disk, store>>
    /\ last' = KeyNamed("u")
    /\ UNCHANGED <<pc, app>>

start_edit_step ==
    LET sel == get_selected_task_id IN
    /\ Key("Navigate")
    /\ app' = IF /\ sel # None
                 /\ HasTask(store, sel[1])
                 /\ Len(TaskOf(store, sel[1]).steps) # 0
                 /\ TaskOf(store, sel[1]).current_step < Len(TaskOf(store, sel[1]).steps)
              THEN LET t == TaskOf(store, sel[1]) IN
                   [app EXCEPT !.edit_buffer = t.steps[t.current_step + 1],
                               !.editing_task_id = sel,
                               !.mode = "EditStep"]
              ELSE app
    /\ last' = KeyNamed("e")
    /\ UNCHANGED <<disk, store, pc>>

start_edit_task_name ==
    LET sel == get_selected_task_id IN
    /\ Key("Navigate")
    /\ app' = IF sel # None /\ HasTask(store, sel[1])
              THEN [app EXCEPT !.edit_buffer = TaskOf(store, sel[1]).description,
                               !.editing_task_id = sel,
                               !.mode = "EditTaskName"]
              ELSE app
    /\ last' = KeyNamed("E")
    /\ UNCHANGED <<disk, store, pc>>

\* Any key no arm of the match names.
NavOther ==
    /\ Key("Navigate")
    /\ last' = KeyEv
    /\ UNCHANGED <<disk, store, pc, app>>


\* ---- handle_form_keys
\* Mutant of the Esc arm of handle_form_keys: the form is kept.
FormEsc_keeps_form ==
    /\ Key("AddTask")
    /\ app' = [app EXCEPT !.mode = "Navigate"]
    /\ last' = EscEv
    /\ UNCHANGED <<disk, store, pc>>

FormEsc ==
    /\ Key("AddTask")
    /\ app' = [app EXCEPT !.mode = "Navigate", !.form = TaskFormDefault]
    /\ last' = EscEv
    /\ UNCHANGED <<disk, store, pc>>

\* Mutant of the Tab arm of handle_form_keys: the focus cycles backwards.
FormTab_backwards ==
    /\ Key("AddTask")
    /\ app' = [app EXCEPT !.form.active_field = (@ + 2) % 3]
    /\ last' = KeyNamed("Tab")
    /\ UNCHANGED <<disk, store, pc>>

FormTab ==
    /\ Key("AddTask")
    /\ app' = [app EXCEPT !.form.active_field = (@ + 1) % 3]
    /\ last' = KeyNamed("Tab")
    /\ UNCHANGED <<disk, store, pc>>

\* Mutant of submit_task: the pending steps are not assigned.
submit_task_without_steps ==
    IF app.form.description # <<>>
    THEN [store |-> add_task(store, app.form.description).store, saved |-> TRUE,
          app |-> [app EXCEPT !.mode = "Navigate", !.form = TaskFormDefault]]
    ELSE [store |-> store, saved |-> FALSE, app |-> app]

\* The store and the App after submit_task.
submit_task ==
    IF app.form.description # <<>>
    THEN LET a == add_task(store, app.form.description)
             i == get_task_mut(a.store, a.ret[1])
             s == IF app.form.steps # <<>> /\ i # 0
                  THEN SetTask(a.store, i, [a.store.tasks[i] EXCEPT !.steps = app.form.steps])
                  ELSE a.store
         IN  [store |-> s, saved |-> TRUE,
              app |-> [app EXCEPT !.mode = "Navigate", !.form = TaskFormDefault]]
    ELSE [store |-> store, saved |-> FALSE, app |-> app]

FormEnter(maxId, maxSteps) ==
    /\ Key("AddTask")
    /\ last' = EnterEv
    /\ UNCHANGED pc
    /\ CASE app.form.active_field = 0 ->
              /\ app' = [app EXCEPT !.form.active_field = 1]
              /\ UNCHANGED <<disk, store>>
         [] app.form.active_field = 1 ->
              /\ app.form.current_step_input # <<>> => Len(app.form.steps) < maxSteps
              /\ app' = IF app.form.current_step_input # <<>>
                        THEN [app EXCEPT
                                !.form.steps = Append(@, app.form.current_step_input),
                                !.form.current_step_input = <<>>]
                        ELSE app
              /\ UNCHANGED <<disk, store>>
         [] OTHER ->
              /\ app.form.description # <<>> => store.next_id <= maxId
              /\ LET r == submit_task IN
                    /\ store' = r.store
                    /\ app' = r.app
                    /\ disk' = IF r.saved THEN save(r.store) ELSE disk

FormChar(maxLen, chars) ==
    /\ Key("AddTask")
    /\ \E c \in chars :
          /\ CASE app.form.active_field = 0 ->
                    /\ Len(app.form.description) < maxLen
                    /\ app' = [app EXCEPT !.form.description = Append(@, c)]
               [] app.form.active_field = 1 ->
                    /\ Len(app.form.current_step_input) < maxLen
                    /\ app' = [app EXCEPT !.form.current_step_input = Append(@, c)]
               [] OTHER -> app' = app
          /\ last' = KeyEv
    /\ UNCHANGED <<disk, store, pc>>

\* String::pop
pop(str) == IF str = <<>> THEN str ELSE SubSeq(str, 1, Len(str) - 1)

FormBackspace ==
    /\ Key("AddTask")
    /\ app' = CASE app.form.active_field = 0 ->
                     [app EXCEPT !.form.description = pop(@)]
                [] app.form.active_field = 1 ->
                     [app EXCEPT !.form.current_step_input = pop(@)]
                [] OTHER -> app
    /\ last' = KeyEv
    /\ UNCHANGED <<disk, store, pc>>

\* ---- handle_edit_keys, handle_edit_task_name_keys
\* Mutant of the Esc arm of the edit handlers: the buffer and the id stay.
EditEsc_keeps_buffer ==
    /\ \E m \in {"EditStep", "EditTaskName"} : Key(m)
    /\ app' = [app EXCEPT !.mode = "Navigate"]
    /\ last' = EscEv
    /\ UNCHANGED <<disk, store, pc>>

EditEsc ==
    /\ \E m \in {"EditStep", "EditTaskName"} : Key(m)
    /\ app' = [app EXCEPT !.mode = "Navigate", !.edit_buffer = <<>>,
                          !.editing_task_id = None]
    /\ last' = EscEv
    /\ UNCHANGED <<disk, store, pc>>

EditChar(maxLen) ==
    /\ \E m \in {"EditStep", "EditTaskName"} : Key(m)
    /\ Len(app.edit_buffer) < maxLen
    /\ \E c \in Chars : app' = [app EXCEPT !.edit_buffer = Append(@, c)]
    /\ last' = KeyEv
    /\ UNCHANGED <<disk, store, pc>>

EditBackspace ==
    /\ \E m \in {"EditStep", "EditTaskName"} : Key(m)
    /\ app' = [app EXCEPT !.edit_buffer = pop(@)]
    /\ last' = KeyEv
    /\ UNCHANGED <<disk, store, pc>>

\* Mutant of the step commit: the text lands in the task's first step.
save_edited_step_first ==
    /\ Key("EditStep")
    /\ LET id == app.editing_task_id
           i == IF id = None THEN 0 ELSE get_task_mut(store, id[1])
       IN  IF /\ i # 0
              /\ app.edit_buffer # <<>>
              /\ store.tasks[i].current_step < Len(store.tasks[i].steps)
           THEN LET t == store.tasks[i]
                    s == SetTask(store, i,
                           [t EXCEPT !.steps[1] = app.edit_buffer])
                IN  /\ store' = s
                    /\ disk' = save(s)
           ELSE UNCHANGED <<disk, store>>
    /\ app' = [app EXCEPT !.mode = "Navigate", !.edit_buffer = <<>>,
                          !.editing_task_id = None]
    /\ last' = KeyNamed("Enter")
    /\ UNCHANGED pc

save_edited_step ==
    /\ Key("EditStep")
    /\ LET id == app.editing_task_id
           i == IF id = None THEN 0 ELSE get_task_mut(store, id[1])
       IN  IF /\ i # 0
              /\ app.edit_buffer # <<>>
              /\ store.tasks[i].current_step < Len(store.tasks[i].steps)
           THEN LET t == store.tasks[i]
                    s == SetTask(store, i,
                           [t EXCEPT !.steps[t.current_step + 1] = app.edit_buffer])
                IN  /\ store' = s
                    /\ disk' = save(s)
           ELSE UNCHANGED <<disk, store>>
    /\ app' = [app EXCEPT !.mode = "Navigate", !.edit_buffer = <<>>,
                          !.editing_task_id = None]
    /\ last' = KeyNamed("Enter")
    /\ UNCHANGED pc

save_edited_task_name ==
    /\ Key("EditTaskName")
    /\ LET id == app.editing_task_id
           i == IF id = None THEN 0 ELSE get_task_mut(store, id[1])
       IN  IF i # 0 /\ app.edit_buffer # <<>>
           THEN LET s == SetTask(store, i,
                           [store.tasks[i] EXCEPT !.description = app.edit_buffer])
                IN  /\ store' = s
                    /\ disk' = save(s)
           ELSE UNCHANGED <<disk, store>>
    /\ app' = [app EXCEPT !.mode = "Navigate", !.edit_buffer = <<>>,
                          !.editing_task_id = None]
    /\ last' = KeyNamed("Enter")
    /\ UNCHANGED pc

\* ---- handle_confirm_keys
\* Mutant of the affirmative key: the first task of the store is removed.
ConfirmYes_removes_first ==
    /\ Key("ConfirmDelete")
    /\ IF app.deleting_task_id # None /\ store.tasks # <<>>
       THEN LET r == remove_task(store, store.tasks[1].id) IN
            /\ store' = r.store
            /\ disk' = save(r.store)
            /\ app' = [app EXCEPT !.selected_task = None, !.mode = "Navigate",
                                  !.deleting_task_id = None]
       ELSE /\ app' = [app EXCEPT !.mode = "Navigate", !.deleting_task_id = None]
            /\ UNCHANGED <<disk, store>>
    /\ last' = KeyNamed("y")
    /\ UNCHANGED pc

ConfirmYes ==
    /\ Key("ConfirmDelete")
    /\ IF app.deleting_task_id # None
       THEN LET r == remove_task(store, app.deleting_task_id[1]) IN
            /\ store' = r.store
            /\ disk' = save(r.store)
            /\ app' = [app EXCEPT !.selected_task = None, !.mode = "Navigate",
                                  !.deleting_task_id = None]
       ELSE /\ app' = [app EXCEPT !.mode = "Navigate", !.deleting_task_id = None]
            /\ UNCHANGED <<disk, store>>
    /\ last' = KeyNamed("y")
    /\ UNCHANGED pc

ConfirmNo ==
    /\ Key("ConfirmDelete")
    /\ app' = [app EXCEPT !.mode = "Navigate", !.deleting_task_id = None]
    /\ last' = EscEv
    /\ UNCHANGED <<disk, store, pc>>

ConfirmOther ==
    /\ Key("ConfirmDelete")
    /\ last' = KeyEv
    /\ UNCHANGED <<disk, store, pc, app>>

\* ---- handle_mouse
InRect(x, y, area) ==
    /\ x >= area.x /\ x < area.x + area.width
    /\ y >= area.y /\ y < area.y + area.height

\* First column rectangle containing the cell, as Some(col_idx).
ColumnAt(x, y) ==
    IF \E c \in 0..3 : InRect(x, y, column_areas[c])
    THEN Some(CHOOSE c \in 0..3 :
            /\ InRect(x, y, column_areas[c])
            /\ \A d \in 0..(c - 1) : ~InRect(x, y, column_areas[d]))
    ELSE None

\* First column whose horizontal extent contains x.
ColumnAtX(x) ==
    LET In(c) == x >= column_areas[c].x /\ x < column_areas[c].x + column_areas[c].width IN
    IF \E c \in 0..3 : In(c)
    THEN Some(CHOOSE c \in 0..3 : In(c) /\ \A d \in 0..(c - 1) : ~In(d))
    ELSE None

\* Mutant of the card search: a span also takes the line after its last.
HitCard_inclusive(tasks, relative_y) ==
    LET Hit(k) == /\ relative_y >= CardTop(tasks, k)
                  /\ relative_y <= CardTop(tasks, k) + card_height(tasks[k])
    IN  IF \E k \in 1..Len(tasks) : Hit(k)
        THEN LET k == CHOOSE k \in 1..Len(tasks) : Hit(k) /\ \A j \in 1..(k - 1) : ~Hit(j)
             IN  Some(<<k - 1, tasks[k].id>>)
        ELSE None

\* The card whose span contains relative_y: Some(<<task_idx, task.id>>).
HitCard(tasks, relative_y) ==
    LET Hit(k) == /\ relative_y >= CardTop(tasks, k)
                  /\ relative_y < CardTop(tasks, k) + card_height(tasks[k])
    IN  IF \E k \in 1..Len(tasks) : Hit(k)
        THEN LET k == CHOOSE k \in 1..Len(tasks) : Hit(k) /\ \A j \in 1..(k - 1) : ~Hit(j)
             IN  Some(<<k - 1, tasks[k].id>>)
        ELSE None

\* Mutant of the press: the selection records the card's 1-based position.
mouse_down_one_based(x, y) ==
    LET col == ColumnAt(x, y) IN
    IF col = None THEN app
    ELSE LET area == column_areas[col[1]]
             relative_y == saturating_sub(y, area.y + 1)
             tasks == get_tasks_by_status(store, StatusOfColumn(col[1]))
             drag_info == HitCard(tasks, relative_y)
         IN  IF drag_info # None
             THEN [app EXCEPT
                     !.selected_column = col[1],
                     !.selected_task = Some(drag_info[1][1] + 1),
                     !.dragging_task = Some(<<drag_info[1][2], col[1]>>),
                     !.drag_target_column = col]
             ELSE [app EXCEPT !.selected_column = col[1]]

\* The App after a press of the primary button at cell (x, y).
mouse_down(x, y) ==
    LET col == ColumnAt(x, y) IN
    IF col = None THEN app
    ELSE LET area == column_areas[col[1]]
             relative_y == saturating_sub(y, area.y + 1)
             tasks == get_tasks_by_status(store, StatusOfColumn(col[1]))
             drag_info == HitCard(tasks, relative_y)
         IN  IF drag_info # None
             THEN [app EXCEPT
                     !.selected_column = col[1],
                     !.selected_task = Some(drag_info[1][1]),
                     !.dragging_task = Some(<<drag_info[1][2], col[1]>>),
                     !.drag_target_column = col]
             ELSE [app EXCEPT !.selected_column = col[1]]

\* True when the press at (x, y) resolves to a card.
HitsCard(x, y) ==
    /\ ColumnAt(x, y) # None
    /\ HitCard(get_tasks_by_status(store, StatusOfColumn(ColumnAt(x, y)[1])),
               saturating_sub(y, column_areas[ColumnAt(x, y)[1]].y + 1)) # None

MouseDown(maxDragKeys, rows) ==
    /\ Mouse
    /\ \E x \in PointerXs, y \in rows :
          /\ app' = mouse_down(x, y)
          /\ drag_keys_left' = IF HitsCard(x, y) THEN maxDragKeys ELSE drag_keys_left
    /\ last' = Ev("Down", None, None, FALSE)
    /\ UNCHANGED <<disk, store, pc>>

\* Mutant of the pointer move: the selected column follows the pointer.
MouseDrag_moves_selection ==
    /\ Mouse
    /\ \E x \in PointerXs :
          app' = IF app.dragging_task # None /\ ColumnAtX(x) # None
                 THEN [app EXCEPT !.drag_target_column = ColumnAtX(x),
                                  !.selected_column = ColumnAtX(x)[1]]
                 ELSE app
    /\ last' = Ev("Drag", None, None, FALSE)
    /\ UNCHANGED <<disk, store, pc, drag_keys_left>>

MouseDrag ==
    /\ Mouse
    /\ \E x \in PointerXs :
          app' = IF app.dragging_task # None /\ ColumnAtX(x) # None
                 THEN [app EXCEPT !.drag_target_column = ColumnAtX(x)]
                 ELSE app
    /\ last' = Ev("Drag", None, None, FALSE)
    /\ UNCHANGED <<disk, store, pc, drag_keys_left>>

\* Mutant of the drop: the chime fires for every target column.
MouseUp_chime_any_target ==
    /\ Mouse
    /\ \E x \in PointerXs, y \in ReleaseRows :
       LET drop == /\ app.dragging_task # None
                   /\ app.drag_target_column # None
                   /\ app.drag_target_column[1] # app.dragging_task[1][2]
           task_id == app.dragging_task[1][1]
           target_col == app.drag_target_column[1]
           new_status == StatusOfColumn(target_col)
           found == drop /\ HasTask(store, task_id)
           s == IF found
                THEN SetTask(store, get_task_mut(store, task_id),
                             [TaskOf(store, task_id) EXCEPT !.status = new_status])
                ELSE store
       IN  /\ store' = s
           /\ disk' = IF found THEN save(s) ELSE disk
           /\ app' = [app EXCEPT
                        !.selected_column = IF drop THEN target_col ELSE @,
                        !.selected_task = IF drop THEN None ELSE @,
                        !.dragging_task = None,
                        !.drag_target_column = None]
           /\ last' = Ev("Up", None, ColumnAt(x, y), found)
    /\ drag_keys_left' = 0
    /\ UNCHANGED pc

MouseUp ==
    /\ Mouse
    /\ \E x \in PointerXs, y \in ReleaseRows :
       LET drop == /\ app.dragging_task # None
                   /\ app.drag_target_column # None
                   /\ app.drag_target_column[1] # app.dragging_task[1][2]
           task_id == app.dragging_task[1][1]
           target_col == app.drag_target_column[1]
           new_status == StatusOfColumn(target_col)
           found == drop /\ HasTask(store, task_id)
           s == IF found
                THEN SetTask(store, get_task_mut(store, task_id),
                             [TaskOf(store, task_id) EXCEPT !.status = new_status])
                ELSE store
       IN  /\ store' = s
           /\ disk' = IF found THEN save(s) ELSE disk
           /\ app' = [app EXCEPT
                        !.selected_column = IF drop THEN target_col ELSE @,
                        !.selected_task = IF drop THEN None ELSE @,
                        !.dragging_task = None,
                        !.drag_target_column = None]
           /\ last' = Ev("Up", None, ColumnAt(x, y), found /\ new_status = Complete)
    /\ drag_keys_left' = 0
    /\ UNCHANGED pc

\* Mutant of handle_events: outside Navigate mode a pointer event still
\* ends the drag session.
MouseIgnored_ends_drag ==
    /\ pc = "board"
    /\ ~app.should_quit
    /\ ~ui_panics
    /\ app.mode # "Navigate"
    /\ \E e \in {"Down", "Drag", "Up"} : last' = Ev(e, None, None, FALSE)
    /\ app' = [app EXCEPT !.dragging_task = None, !.drag_target_column = None]
    /\ UNCHANGED <<disk, store, pc, drag_keys_left>>

\* handle_events: a mouse event outside Navigate mode is dropped.
MouseIgnored ==
    /\ pc = "board"
    /\ ~app.should_quit
    /\ ~ui_panics
    /\ app.mode # "Navigate"
    /\ \E e \in {"Down", "Drag", "Up"} : last' = Ev(e, None, None, FALSE)
    /\ UNCHANGED <<disk, store, pc, app, drag_keys_left>>

\* ------------------------------------------------------ specifications
Ids == 1..MaxId

Next ==
    \/ MainLoad
    \/ CmdAdd(MaxId, Strings(MaxStrLen))
    \/ CmdStart
    \/ CmdBreak(Ids, StepLists(MaxSteps, MaxStrLen))
    \/ CmdDone(Ids)
    \/ CmdBlock(Ids)
    \/ CmdUnblock(Ids)
    \/ CmdReset(Ids)
    \/ CmdRemove(Ids)
    \/ CmdList
    \/ CmdBoard
    \/ RunReturn
    \/ NavQuit
    \/ NavAdd
    \/ NavLeft
    \/ NavRight
    \/ NavUp
    \/ NavDown
    \/ move_to_not_started
    \/ move_to_in_progress
    \/ move_to_blocked
    \/ app_complete_task
    \/ app_remove_task
    \/ undo_step
    \/ start_edit_step
    \/ start_edit_task_name
    \/ NavOther
    \/ FormEsc
    \/ FormTab
    \/ FormEnter(MaxId, MaxSteps)
    \/ FormChar(MaxStrLen, Chars)
    \/ FormBackspace
    \/ EditEsc
    \/ EditChar(MaxStrLen)
    \/ EditBackspace
    \/ save_edited_step
    \/ save_edited_task_name
    \/ ConfirmYes
    \/ ConfirmNo
    \/ ConfirmOther
    \/ MouseDown(MaxDragKeys, BoardRows)
    \/ MouseDrag
    \/ MouseUp
    \/ MouseIgnored

Spec == Init /\ [][Next]_vars

\* The command line alone, with more tasks and longer step lists.
CliIds == 1..CliMaxId
CliTexts == {<<"x">>}
CliStepLists == UNION {[1..k -> CliTexts] : k \in 1..CliMaxSteps}

NextCli ==
    \/ MainLoad
    \/ CmdAdd(CliMaxId, CliTexts \cup {<<>>})
    \/ CmdStart
    \/ CmdBreak(CliIds, CliStepLists)
    \/ CmdDone(CliIds)
    \/ CmdBlock(CliIds)
    \/ CmdUnblock(CliIds)
    \/ CmdReset(CliIds)
    \/ CmdRemove(CliIds)
    \/ CmdList

SpecCli == Init /\ [][NextCli]_vars


\* The board under presses and releases of the pointer alone, on a store of
\* several tasks: the stores that adds and break-downs leave behind, some
\* tasks started.
PointerTasks(n) ==
    {t \in [1..n -> [id : 1..n, description : {<<"x">>},
                     steps : {<<>>, << <<"x">> >>}, current_step : {0},
                     status : {NotStarted, InProgress}, completed : {None}]] :
        \A i \in 1..n : t[i].id = i}

InitPointer ==
    /\ store \in UNION {{[tasks |-> t, next_id |-> n + 1] : t \in PointerTasks(n)} :
                          n \in 0..PointerMaxTasks}
    /\ disk = save(store)
    /\ pc = "board"
    /\ app = AppNew
    /\ last = Ev("board", None, None, FALSE)
    /\ drag_keys_left = 0

NextPointer ==
    \/ MouseDown(0, PointerYs)
    \/ MouseUp

SpecPointer == InitPointer /\ [][NextPointer]_vars

\* The board's add-task form with text that is not all ASCII.
TextChars == {"x", "é"}

NextText ==
    \/ MainLoad
    \/ CmdBoard
    \/ RunReturn
    \/ DrawPanic
    \/ NavQuit
    \/ NavAdd
    \/ NavOther
    \/ FormEsc
    \/ FormTab
    \/ FormEnter(TextMaxId, TextMaxSteps)
    \/ FormChar(TextMaxLen, TextChars)
    \/ FormBackspace

SpecText == Init /\ [][NextText]_vars

\* TaskStore::load on the data files an older version, or anything else, may
\* have left: no file, text that is not a store, and stores whose tasks
\* carry or lack the status and the legacy completed flag.
Statuses == {NotStarted, InProgress, Blocked, Complete}

FileTasks(id) ==
    LET base == [id : {id}, description : {<<"x">>}, steps : {<<>>},
                 current_step : {0}]
        flags == {Some(TRUE), Some(FALSE), None}
    IN  UNION {
          {[id |-> b.id, description |-> b.description, steps |-> b.steps,
            current_step |-> b.current_step] : b \in base},
          {[id |-> b.id, description |-> b.description, steps |-> b.steps,
            current_step |-> b.current_step, status |-> st] :
                b \in base, st \in Statuses},
          {[id |-> b.id, description |-> b.description, steps |-> b.steps,
            current_step |-> b.current_step, completed |-> f] :
                b \in base, f \in flags},
          {[id |-> b.id, description |-> b.description, steps |-> b.steps,
            current_step |-> b.current_step, status |-> st, completed |-> f] :
                b \in base, st \in Statuses, f \in flags},
          {[id |-> b.id, description |-> b.description] : b \in base}}

FileContents ==
    {[text |-> "not json"]} \cup
    UNION {{[tasks |-> t, next_id |-> n + 1] :
                t \in {u \in [1..n -> UNION {FileTasks(i) : i \in 1..n}] :
                            \A i \in 1..n : u[i].id = i}} :
           n \in 0..LoadMaxTasks}

InitLoad ==
    /\ disk \in {NoFile} \cup {Some(c) : c \in FileContents}
    /\ store = new
    /\ pc = "shell"
    /\ app = AppNew
    /\ last = Ev("none", None, None, FALSE)
    /\ drag_keys_left = 0

NextLoad ==
    \/ MainLoad
    \/ CmdList

SpecLoad == InitLoad /\ [][NextLoad]_vars

\* The board under the keyboard alone, on a store of several tasks in every
\* status.
KeysTasks(n, statuses) ==
    {t \in [1..n -> [id : 1..n, description : {<<"a">>},
                     steps : {<<>>, << <<"a">>, <<"a">>, <<"a">> >>}, current_step : {0},
                     status : statuses, completed : {None}]] :
        \A i \in 1..n : t[i].id = i}

InitBoard(statuses) ==
    /\ store \in UNION {{[tasks |-> t, next_id |-> n + 1] : t \in KeysTasks(n, statuses)} :
                          n \in 0..KeysMaxTasks}
    /\ disk = save(store)
    /\ pc = "board"
    /\ app = AppNew
    /\ last = Ev("board", None, None, FALSE)
    /\ drag_keys_left = 0

InitKeys == InitBoard(Statuses)

NextKeys ==
    \/ NavLeft
    \/ NavRight
    \/ NavUp
    \/ NavDown
    \/ move_to_in_progress
    \/ app_complete_task
    \/ app_remove_task
    \/ undo_step
    \/ ConfirmYes
    \/ ConfirmNo
    \/ ConfirmOther

SpecKeys == InitKeys /\ [][NextKeys]_vars

\* The edit keys on tasks that have not been started, whose text differs
\* from what the keys type.
InitEdit == InitBoard({NotStarted})

NextEdit ==
    \/ NavUp
    \/ NavDown
    \/ app_complete_task
    \/ start_edit_step
    \/ start_edit_task_name
    \/ EditEsc
    \/ EditChar(MaxStrLen)
    \/ EditBackspace
    \/ save_edited_step
    \/ save_edited_task_name

SpecEdit == InitEdit /\ [][NextEdit]_vars

\* The selection under presses of the pointer and the up and down keys, on
\* stores of cards without steps in the first two columns.
SelectTasks(n) ==
    {t \in [1..n -> [id : 1..n, description : {<<"x">>},
                     steps : {<<>>}, current_step : {0},
                     status : {NotStarted, InProgress}, completed : {None}]] :
        \A i \in 1..n : t[i].id = i}

InitSelect ==
    /\ store \in UNION {{[tasks |-> t, next_id |-> n + 1] : t \in SelectTasks(n)} :
                          n \in 0..SelectMaxTasks}
    /\ disk = save(store)
    /\ pc = "board"
    /\ app = AppNew
    /\ last = Ev("board", None, None, FALSE)
    /\ drag_keys_left = 0

NextSelect ==
    \/ MouseDown(0, PointerYs)
    \/ MouseUp
    \/ NavUp
    \/ NavDown

SpecSelect == InitSelect /\ [][NextSelect]_vars

\* The add-task form alone, typed with two different characters.
FormChars == {"x", "y"}

NextForm ==
    \/ MainLoad
    \/ CmdBoard
    \/ NavAdd
    \/ FormEsc
    \/ FormTab
    \/ FormEnter(FormMaxId, FormMaxSteps)
    \/ FormChar(FormMaxLen, FormChars)
    \/ FormBackspace

SpecForm == Init /\ [][NextForm]_vars

\* ===================================================================
\* The web-API variant (web/src/main.rs): its own TaskStore behind a
\* mutex, one request handler at a time, the same data-file variable.
\* ===================================================================
InReview == "InReview"
WebStatuses == {NotStarted, InProgress, InReview, Blocked, Complete}
\* The statuses the update requests ask for.
WebRequested == {InReview, Complete}
\* Utc::now(): the clock is not modelled, every reading is this one.
WebNow == "now"
WebPath == "tasks.json"

web_new == [tasks |-> <<>>, labels |-> <<>>, next_id |-> 1, data_file |-> None]

\* serde_json::to_string_pretty(self): data_file is #[serde(skip)].
web_to_string(s) == [tasks |-> s.tasks, labels |-> s.labels, next_id |-> s.next_id]

\* TaskStore::save_to_file: the file after the call.
web_save_to_file(s, file) ==
    IF s.data_file # None THEN Some(web_to_string(s)) ELSE file

\* TaskStore::load_from_file
web_load_from_file(file) ==
    IF file # NoFile
    THEN [tasks |-> file[1].tasks, labels |-> file[1].labels,
          next_id |-> file[1].next_id, data_file |-> Some(WebPath)]
    ELSE [web_new EXCEPT !.data_file = Some(WebPath)]

\* TaskStore::get_or_add_label, mapped over the labels of a request from
\* the first to the last: the store, the file and the labels returned.
RECURSIVE web_get_or_add_labels(_, _, _)
web_get_or_add_labels(s, file, lbls) ==
    IF lbls = <<>>
    THEN [store |-> s, disk |-> file, labels |-> <<>>]
    ELSE LET before == web_get_or_add_labels(s, file, SubSeq(lbls, 1, Len(lbls) - 1))
             label == lbls[Len(lbls)]
             known == {k \in 1..Len(before.store.labels) :
                          before.store.labels[k].name = label.name}
         IN  IF known # {}
             THEN [before EXCEPT
                     !.labels = Append(@, before.store.labels[CHOOSE k \in known :
                                                   \A j \in known : k <= j])]
             ELSE LET s2 == [before.store EXCEPT !.labels = Append(@, label)] IN
                  [store |-> s2, disk |-> web_save_to_file(s2, before.disk),
                   labels |-> Append(before.labels, label)]

\* TaskStore::add_task
web_add_task(s, file, description, details, due_date, labels) ==
    LET task == [id |-> s.next_id, description |-> description, details |-> details,
                 steps |-> <<>>, comments |-> <<>>, status |-> NotStarted,
                 labels |-> labels, due_date |-> due_date, created_at |-> WebNow,
                 archived |-> FALSE, archived_at |-> None, time_spent |-> 0]
         s2 == [s EXCEPT !.next_id = @ + 1, !.tasks = Append(@, task)]
    IN  [store |-> s2, disk |-> web_save_to_file(s2, file), task |-> task]

\* TaskStore::get_task_mut: the position of the first task with this id, 0
\* when there is none.
web_get_task_mut(s, id) ==
    IF \E k \in 1..Len(s.tasks) : s.tasks[k].id = id
    THEN CHOOSE k \in 1..Len(s.tasks) :
            s.tasks[k].id = id /\ \A j \in 1..(k - 1) : s.tasks[j].id # id
    ELSE 0

\* What the requests carry.
WebIds == 1..WebMaxId
WebLabels == {[name |-> "l", color |-> "red"], [name |-> "l", color |-> "blue"]}
WebLabelLists == {None, Some(<<>>)} \cup {Some(<<l>>) : l \in WebLabels}
WebStepTexts == {None, Some(<<>>), Some(<< <<"x">> >>)}
WebSteps == {None, Some(<<>>), Some(<<[text |-> <<"y">>, completed |-> FALSE]>>)}

\* A handler has returned `code`, leaving store s and file f.
WebReturn(name, id, code, s, f) ==
    /\ pc = "serving"
    /\ store' = s
    /\ disk' = f
    /\ last' = Ev(name, id, Some(code), FALSE)
    /\ UNCHANGED <<pc, app, drag_keys_left>>

create_task ==
    /\ store.next_id <= WebMaxId
    /\ \E description \in {<<"x">>}, details \in {None}, due_date \in {None},
          req_labels \in WebLabelLists, req_steps \in WebStepTexts :
          LET l == IF req_labels # None
                   THEN web_get_or_add_labels(store, disk, req_labels[1])
                   ELSE [store |-> store, disk |-> disk, labels |-> <<>>]
              a == web_add_task(l.store, l.disk, description, details, due_date, l.labels)
              i == web_get_task_mut(a.store, a.task.id)
              step_structs == IF req_steps = None THEN <<>>
                              ELSE [k \in 1..Len(req_steps[1]) |->
                                      [text |-> req_steps[1][k], completed |-> FALSE]]
              s == IF req_steps # None /\ i # 0
                   THEN [a.store EXCEPT !.tasks[i].steps = step_structs]
                   ELSE a.store
          IN  WebReturn("create_task", Some(a.task.id), 201, s, a.disk)

update_task_status ==
    \E id \in WebIds, status \in WebRequested :
        LET i == web_get_task_mut(store, id) IN
        IF i # 0
        THEN LET s == [store EXCEPT !.tasks[i].status = status] IN
             WebReturn("update_task_status", Some(id), 200, s, web_save_to_file(s, disk))
        ELSE WebReturn("update_task_status", Some(id), 404, store, disk)

delete_task ==
    \E id \in WebIds :
        LET s == [store EXCEPT !.tasks = SelectSeq(@, LAMBDA t : t.id # id)]
            removed == Len(s.tasks) < Len(store.tasks)
        IN  IF removed
            THEN WebReturn("delete_task", Some(id), 204, s, web_save_to_file(s, disk))
            ELSE WebReturn("delete_task", Some(id), 404, s, disk)

update_task ==
    \E id \in WebIds, description \in {None, Some(<<"y">>)}, details \in {None},
       req_labels \in {None, Some(<<>>)}, due_date \in {None, Some("d")}, req_steps \in WebSteps :
        LET l == IF req_labels # None
                 THEN web_get_or_add_labels(store, disk, req_labels[1])
                 ELSE [store |-> store, disk |-> disk, labels |-> <<>>]
            i == web_get_task_mut(l.store, id)
        IN  IF i # 0
            THEN LET t == l.store.tasks[i]
                     t2 == [t EXCEPT
                              !.description = IF description # None THEN description[1] ELSE @,
                              !.details = IF details # None THEN details ELSE @,
                              !.labels = IF req_labels # None THEN l.labels ELSE @,
                              !.due_date = IF due_date # None THEN due_date ELSE @,
                              !.steps = IF req_steps # None THEN req_steps[1] ELSE @]
                     s == [l.store EXCEPT !.tasks[i] = t2]
                 IN  WebReturn("update_task", Some(id), 200, s, web_save_to_file(s, l.disk))
            ELSE WebReturn("update_task", Some(id), 404, l.store, l.disk)

add_comment ==
    \E id \in WebIds, text \in {<<"x">>} :
        LET i == web_get_task_mut(store, id) IN
        IF i # 0
        THEN /\ Len(store.tasks[i].comments) < WebMaxComments
             /\ LET s == [store EXCEPT !.tasks[i].comments =
                             Append(@, [text |-> text, created_at |-> WebNow])]
                IN  WebReturn("add_comment", Some(id), 200, s, web_save_to_file(s, disk))
        ELSE WebReturn("add_comment", Some(id), 404, store, disk)

toggle_step ==
    \E id \in WebIds, step_index \in 0..1 :
        LET i == web_get_task_mut(store, id) IN
        IF i # 0
        THEN IF step_index < Len(store.tasks[i].steps)
             THEN LET s == [store EXCEPT !.tasks[i].steps[step_index + 1].completed = ~@] IN
                  WebReturn("toggle_step", Some(id), 200, s, web_save_to_file(s, disk))
             ELSE WebReturn("toggle_step", Some(id), 400, store, disk)
        ELSE WebReturn("toggle_step", Some(id), 404, store, disk)

archive_task ==
    \E id \in WebIds, archived \in BOOLEAN :
        LET i == web_get_task_mut(store, id) IN
        IF i # 0
        THEN LET s == [store EXCEPT
                         !.tasks[i].archived = archived,
                         !.tasks[i].archived_at = IF archived THEN Some(WebNow) ELSE None]
             IN  WebReturn("archive_task", Some(id), 200, s, web_save_to_file(s, disk))
        ELSE WebReturn("archive_task", Some(id), 404, store, disk)

update_time ==
    \E id \in WebIds, time_spent \in 0..WebMaxTime :
        LET i == web_get_task_mut(store, id) IN
        IF i # 0
        THEN LET s == [store EXCEPT !.tasks[i].time_spent = time_spent] IN
             WebReturn("update_time", Some(id), 200, s, web_save_to_file(s, disk))
        ELSE WebReturn("update_time", Some(id), 404, store, disk)

\* main: the store is loaded from the data file and the server listens.
InitWeb ==
    /\ disk = NoFile
    /\ store = web_load_from_file(disk)
    /\ pc = "serving"
    /\ app = AppNew
    /\ last = Ev("serve", None, None, FALSE)
    /\ drag_keys_left = 0

NextWeb ==
    \/ create_task
    \/ update_task_status
    \/ delete_task
    \/ update_task
    \/ add_comment
    \/ toggle_step
    \/ archive_task
    \/ update_time

SpecWeb == InitWeb /\ [][NextWeb]_vars

\* ===================================================================
\* Properties
\* ===================================================================
Eligible(t) == t.status \in {NotStarted, InProgress}
Unfinished(t) == Eligible(t) /\ Len(t.steps) > 0 /\ t.current_step < Len(t.steps)
Stepless(t) == Eligible(t) /\ Len(t.steps) = 0

\* The command that just ended was `name`, run by main on the loaded store.
Ran(name) == pc = "main" /\ pc' = "shell" /\ last'.ev = name

\* Every task other than the one with this id is as it was, and so are the
\* order of the tasks and the id counter.
OthersUnchanged(id) ==
    /\ Len(store'.tasks) = Len(store.tasks)
    /\ store'.next_id = store.next_id
    /\ \A i \in 1..Len(store.tasks) :
          store.tasks[i].id # id => store'.tasks[i] = store.tasks[i]

\* C1: every task has 0 <= current_step <= len(steps), and a task without
\* steps has current_step = 0, after every operation of the command line
\* and of the board.
C1_StepIndexInRange ==
    \A i \in 1..Len(store.tasks) :
        LET t == store.tasks[i] IN
        /\ 0 <= t.current_step
        /\ t.current_step <= Len(t.steps)
        /\ (Len(t.steps) = 0 => t.current_step = 0)

\* C1 witness: in a board session a task with two steps stands at its second.
C1_Witness ==
    /\ pc = "board"
    /\ \E i \in 1..Len(store.tasks) :
          Len(store.tasks[i].steps) = 2 /\ store.tasks[i].current_step = 1

\* C2: `task done <id>` on an existing task with k steps at current_step i:
\* if k > 0 and i < k-1 only current_step changes, to i+1; if i = k-1 or k = 0
\* only status changes, to Complete.  Either way the call returns true and no
\* other task changes.
C2_AdvanceStep ==
    Ran("done") /\ HasTask(store, last'.id[1]) =>
        LET id == last'.id[1]
            t == TaskOf(store, id)
            k == Len(t.steps)
            i == t.current_step
        IN  /\ last'.ret = TRUE
            /\ HasTask(store', id)
            /\ OthersUnchanged(id)
            /\ (k > 0 /\ i < k - 1) =>
                  TaskOf(store', id) = [t EXCEPT !.current_step = i + 1]
            /\ (i = k - 1 \/ k = 0) =>
                  TaskOf(store', id) = [t EXCEPT !.status = Complete]

C2_Advance == [][C2_AdvanceStep]_vars

\* C2 witness: a task with 3 steps, never started, stands at current_step 2
\* after `done`: two advances moved the index and left the status alone.
C2_Witness ==
    /\ last.ev = "done"
    /\ HasTask(store, last.id[1])
    /\ Len(TaskOf(store, last.id[1]).steps) = 3
    /\ TaskOf(store, last.id[1]).current_step = 2
    /\ TaskOf(store, last.id[1]).status = NotStarted

\* C3: `task start` never returns a Complete or Blocked task; it returns the
\* earliest task that is NotStarted or InProgress and has unfinished steps,
\* if there is one (even behind a step-less one); otherwise the earliest
\* step-less task that is NotStarted or InProgress; otherwise nothing.
C3_NextActionStep ==
    Ran("start") =>
        LET ret == last'.ret
            n == Len(store.tasks)
            Earliest(P(_), i) == P(store.tasks[i]) /\ \A j \in 1..(i - 1) : ~P(store.tasks[j])
        IN  /\ ret # None => ret[1].status \notin {Complete, Blocked}
            /\ \A i \in 1..n :
                  Earliest(Unfinished, i) => ret # None /\ ret[1].id = store.tasks[i].id
            /\ (\A j \in 1..n : ~Unfinished(store.tasks[j])) =>
                  \A i \in 1..n :
                      Earliest(Stepless, i) => ret # None /\ ret[1].id = store.tasks[i].id
            /\ (\A j \in 1..n : ~Unfinished(store.tasks[j]) /\ ~Stepless(store.tasks[j])) =>
                  ret = None

C3_NextAction == [][C3_NextActionStep]_vars

\* C3 witness: `start` returned the second task, which has steps, although
\* the first task is step-less and eligible.
C3_Witness ==
    /\ last.ev = "start"
    /\ Len(store.tasks) = 2
    /\ Stepless(store.tasks[1])
    /\ Unfinished(store.tasks[2])
    /\ last.ret # None
    /\ last.ret[1].id = store.tasks[2].id

\* C4: `task start` changes nothing but the status of the chosen task, and
\* that only from NotStarted to InProgress; with no eligible task it returns
\* nothing and the store is unchanged.  A single step-less task is returned
\* as InProgress, and an advance of it then makes it Complete.
C4_NextActionFrameStep ==
    Ran("start") =>
        LET ret == last'.ret IN
        /\ ret = None => store' = store
        /\ ret # None =>
              /\ HasTask(store, ret[1].id)
              /\ OthersUnchanged(ret[1].id)
              /\ LET t == TaskOf(store, ret[1].id) IN
                   /\ TaskOf(store', ret[1].id) =
                         IF t.status = NotStarted THEN [t EXCEPT !.status = InProgress] ELSE t
                   /\ ret[1] = TaskOf(store', ret[1].id)
        /\ (Len(store.tasks) = 1 /\ Stepless(store.tasks[1])) =>
              /\ ret = Some([store.tasks[1] EXCEPT !.status = InProgress])
              /\ complete_task(store', store.tasks[1].id).store.tasks[1].status = Complete

C4_NextActionFrame == [][C4_NextActionFrameStep]_vars

\* C4 witness: `start` promoted a task with steps from NotStarted while a
\* second task stayed NotStarted.
C4_Witness ==
    /\ last.ev = "start"
    /\ last.ret # None
    /\ Len(store.tasks) = 2
    /\ last.ret[1].id = store.tasks[2].id
    /\ store.tasks[2].status = InProgress
    /\ store.tasks[1].status = Blocked
    /\ load(disk).tasks[2].status = NotStarted

\* C5: whenever a command or a board event handler has finished, the data
\* file holds the in-memory store.
C5_Persisted ==
    load(disk) = store

\* C6: after every pointer-up event the drag session is empty.
C6_DragClearedOnPointerUp ==
    last.ev = "Up" =>
        app.dragging_task = None /\ app.drag_target_column = None

\* C7: when handle_mouse receives the pointer-up of a drag session whose task
\* exists: with the target column equal to the origin column the task is
\* unchanged; otherwise only its status changes, to the one the target column
\* stands for (0 NotStarted, 1 InProgress, 2 Blocked, 3 Complete), whatever
\* it was before.
C7_TargetStatus(col) ==
    CASE col = 0 -> NotStarted
      [] col = 1 -> InProgress
      [] col = 2 -> Blocked
      [] col = 3 -> Complete

C7_DropStep ==
    /\ pc = "board"
    /\ ~app.should_quit
    /\ app.mode = "Navigate"
    /\ last'.ev = "Up"
    /\ app.dragging_task # None
    /\ HasTask(store, app.dragging_task[1][1])
    =>  LET id == app.dragging_task[1][1]
            origin == app.dragging_task[1][2]
            target == app.drag_target_column
            t == TaskOf(store, id)
        IN  /\ HasTask(store', id)
            /\ OthersUnchanged(id)
            /\ (target = None \/ target = Some(origin)) => TaskOf(store', id) = t
            /\ (target # None /\ target # Some(origin)) =>
                  TaskOf(store', id) = [t EXCEPT !.status = C7_TargetStatus(target[1])]

C8_ChimeOnlyOnCompletedStep ==
    app_complete_task /\ last'.chime =>
        LET sel == get_selected_task_id IN
        /\ sel # None
        /\ HasTask(store, sel[1])
        /\ TaskOf(store', sel[1]).current_step = TaskOf(store, sel[1]).current_step

C8_ChimeOnlyOnCompleted == [][C8_ChimeOnlyOnCompletedStep]_vars

\* C9 as stated: a Complete task that stays in the store stays Complete under
\* every step that is not a drop.
C9_StaysComplete(id) ==
    /\ HasTask(store, id)
    /\ TaskOf(store, id).status = Complete
    /\ HasTask(store', id)
    => TaskOf(store', id).status = Complete

C9_CompleteIsFinalStep ==
    ~MouseUp => \A id \in Ids : C9_StaysComplete(id)

C9_CompleteIsFinal == [][C9_CompleteIsFinalStep]_vars

\* C9 amended: a Complete task that stays in the store stays Complete under
\* every step that is neither a drop nor the force-InProgress key.
C9_CompleteIsFinalButForcedStep ==
    ~MouseUp /\ ~move_to_in_progress => \A id \in Ids : C9_StaysComplete(id)

C9_CompleteIsFinalButForced == [][C9_CompleteIsFinalButForcedStep]_vars

\* C9 witness: `task reset` was just refused on a task that is Complete.
C9_Witness ==
    /\ last.ev = "reset"
    /\ last.ret = FALSE
    /\ HasTask(store, last.id[1])
    /\ TaskOf(store, last.id[1]).status = Complete

\* C10: `task block <id>` on an existing task: a Complete task is refused and
\* the store is unchanged; any other task becomes Blocked with steps and
\* current_step as they were, and no other task changes.
C10_BlockStep ==
    Ran("block") /\ HasTask(store, last'.id[1]) =>
        LET id == last'.id[1]
            t == TaskOf(store, id)
        IN  IF t.status = Complete
            THEN last'.ret = FALSE /\ store' = store
            ELSE /\ last'.ret = TRUE
                 /\ HasTask(store', id)
                 /\ OthersUnchanged(id)
                 /\ TaskOf(store', id) = [t EXCEPT !.status = Blocked]

C10_Block == [][C10_BlockStep]_vars

\* C10 witness: block was refused on a Complete task.
C10_Witness ==
    /\ last.ev = "block"
    /\ last.ret = FALSE
    /\ HasTask(store, last.id[1])
    /\ TaskOf(store, last.id[1]).status = Complete
    /\ TaskOf(store, last.id[1]).current_step = 1

\* C11: `task unblock <id>` on an existing task: a task that is not Blocked is
\* refused and the store is unchanged; a Blocked task becomes InProgress when
\* current_step > 0 or it has steps, NotStarted otherwise, with steps and
\* current_step as they were, and no other task changes.
C11_UnblockStep ==
    Ran("unblock") /\ HasTask(store, last'.id[1]) =>
        LET id == last'.id[1]
            t == TaskOf(store, id)
        IN  IF t.status # Blocked
            THEN last'.ret = FALSE /\ store' = store
            ELSE /\ last'.ret = TRUE
                 /\ HasTask(store', id)
                 /\ OthersUnchanged(id)
                 /\ TaskOf(store', id) =
                       [t EXCEPT !.status =
                           IF t.current_step > 0 \/ Len(t.steps) # 0
                           THEN InProgress ELSE NotStarted]

C11_Unblock == [][C11_UnblockStep]_vars

\* C11 witness: unblock was refused on a task that has steps and is not
\* Blocked, while the other task in the store is Blocked.
C11_Witness ==
    /\ last.ev = "unblock"
    /\ last.ret = FALSE
    /\ HasTask(store, last.id[1])
    /\ TaskOf(store, last.id[1]).status = NotStarted
    /\ Len(TaskOf(store, last.id[1]).steps) > 0
    /\ \E i \in 1..Len(store.tasks) : store.tasks[i].status = Blocked

\* C12: for every task of a reachable store that is not Complete, block_task
\* followed by unblock_task both succeed and leave the task InProgress iff
\* current_step > 0 or it has steps, NotStarted otherwise, with current_step
\* (and steps) as before the two calls.
C12_BlockThenUnblock ==
    \A id \in CliIds :
        HasTask(store, id) /\ TaskOf(store, id).status # Complete =>
            LET t == TaskOf(store, id)
                b == block_task(store, id)
                u == unblock_task(b.store, id)
                t2 == TaskOf(u.store, id)
                begun == t.current_step > 0 \/ Len(t.steps) # 0
            IN  /\ b.ret = TRUE
                /\ u.ret = TRUE
                /\ TaskOf(b.store, id).current_step = t.current_step
                /\ t2.current_step = t.current_step
                /\ t2.steps = t.steps
                /\ (t2.status = InProgress) = begun
                /\ (t2.status = NotStarted) = ~begun

\* C12 witness: `task unblock` just succeeded (so the task was blocked
\* before) on a task standing at current_step 1 of 3 steps, and it is
\* InProgress.
C12_Witness ==
    /\ last.ev = "unblock"
    /\ last.ret = TRUE
    /\ HasTask(store, last.id[1])
    /\ Len(TaskOf(store, last.id[1]).steps) = 3
    /\ TaskOf(store, last.id[1]).current_step = 1
    /\ TaskOf(store, last.id[1]).status = InProgress

\* C13: `task reset <id>` on an existing task: a Complete task is refused and
\* the store is unchanged; any other task becomes NotStarted with steps and
\* current_step exactly as they were, and no other task changes.
C13_ResetStep ==
    Ran("reset") /\ HasTask(store, last'.id[1]) =>
        LET id == last'.id[1]
            t == TaskOf(store, id)
        IN  IF t.status = Complete
            THEN last'.ret = FALSE /\ store' = store
            ELSE /\ last'.ret = TRUE
                 /\ HasTask(store', id)
                 /\ OthersUnchanged(id)
                 /\ TaskOf(store', id) = [t EXCEPT !.status = NotStarted]

C13_Reset == [][C13_ResetStep]_vars

\* C13 witness: reset succeeded on a task that stands at current_step 2 of 3
\* steps: it is NotStarted and still at step 2.
C13_Witness ==
    /\ last.ev = "reset"
    /\ last.ret = TRUE
    /\ HasTask(store, last.id[1])
    /\ TaskOf(store, last.id[1]).status = NotStarted
    /\ Len(TaskOf(store, last.id[1]).steps) = 3
    /\ TaskOf(store, last.id[1]).current_step = 2

\* C14: done, block, unblock, reset and remove with an id that no task has
\* return false and leave the whole store (tasks, order, fields, id counter)
\* as it was.
C14_MissingIdStep ==
    /\ \E name \in {"done", "block", "unblock", "reset", "remove"} : Ran(name)
    /\ ~HasTask(store, last'.id[1])
    => last'.ret = FALSE /\ store' = store

C14_MissingId == [][C14_MissingIdStep]_vars

\* C14 witness: `task remove` of an id the store has not returned false on a
\* store that holds a task.
C14_Witness ==
    /\ last.ev = "remove"
    /\ last.ret = FALSE
    /\ ~HasTask(store, last.id[1])
    /\ Len(store.tasks) = 1

\* C15: ids are unique and never reused.  In every state the ids of the
\* store are strictly increasing along the task list (hence pairwise
\* distinct) and below the id counter; no step lowers the counter; and
\* `task add` returns the counter's old value and leaves the counter above
\* it, so the id is above every id returned before, removed tasks included.
C15_IdsOrdered(s) ==
    /\ \A i \in 1..Len(s.tasks) : s.tasks[i].id < s.next_id
    /\ \A i, j \in 1..Len(s.tasks) : i < j => s.tasks[i].id < s.tasks[j].id

C15_IdsStep ==
    /\ C15_IdsOrdered(store)
    /\ C15_IdsOrdered(store')
    /\ store'.next_id >= store.next_id
    /\ (Ran("add") /\ last'.ret # None =>
          /\ last'.ret[1] >= store.next_id
          /\ store'.next_id > last'.ret[1]
          /\ HasTask(store', last'.ret[1])
          /\ ~HasTask(store, last'.ret[1]))

C15_IdsNeverReused == [][C15_IdsStep]_vars

\* C15 witness: `task add` returned id 2 into a store that was empty, because
\* task 1 had been added and removed before.
C15_Witness ==
    /\ last.ev = "add"
    /\ last.ret = Some(2)
    /\ Len(store.tasks) = 1
    /\ store.tasks[1].id = 2

\* C16: in every state of the board a press inside a column, below its top
\* border row, hits the card whose cumulative span (height 3 without steps, 4 with steps, in display
\* order) contains the offset from the first card row, and no card when the
\* offset is past the last span; with heights [3,4,3], offsets 0-2 hit card
\* 0, 3-6 card 1, 7-9 card 2 and offsets from 10 on hit nothing.
C16_Heights(tasks) ==
    [k \in 1..Len(tasks) |-> IF Len(tasks[k].steps) = 0 THEN 3 ELSE 4]

RECURSIVE C16_Sum(_, _)
C16_Sum(hs, k) == IF k = 0 THEN 0 ELSE C16_Sum(hs, k - 1) + hs[k]

\* The 1-based card whose span contains the offset, 0 when there is none.
C16_CardAt(hs, off) ==
    IF \E k \in 1..Len(hs) : C16_Sum(hs, k - 1) <= off /\ off < C16_Sum(hs, k)
    THEN CHOOSE k \in 1..Len(hs) : C16_Sum(hs, k - 1) <= off /\ off < C16_Sum(hs, k)
    ELSE 0

C16_Scenario(hs, off) ==
    hs = <<3, 4, 3>> =>
        C16_CardAt(hs, off) = IF off <= 2 THEN 1
                              ELSE IF off <= 6 THEN 2
                              ELSE IF off <= 9 THEN 3 ELSE 0

C16_HitTest ==
    \A c \in 0..3, y \in PointerYs :
        LET area == column_areas[c] IN
        InRect(area.x, y, area) /\ y >= area.y + 1 =>
            LET off == y - (area.y + 1)
                tasks == get_tasks_by_status(store, StatusOfColumn(c))
                hs == C16_Heights(tasks)
                k == C16_CardAt(hs, off)
                hit == HitCard(tasks, saturating_sub(y, area.y + 1))
            IN  /\ C16_Scenario(hs, off)
                /\ hit = IF k = 0 THEN None ELSE Some(<<k - 1, tasks[k].id>>)
                /\ mouse_down(area.x, y) =
                      IF k = 0
                      THEN [app EXCEPT !.selected_column = c]
                      ELSE [app EXCEPT !.selected_column = c,
                                       !.selected_task = Some(k - 1),
                                       !.dragging_task = Some(<<tasks[k].id, c>>),
                                       !.drag_target_column = Some(c)]

\* C16 witness: in a column whose cards have heights 3, 4, 3 a press has
\* just hit the third card.
C16_Witness ==
    /\ last.ev = "Down"
    /\ C16_Heights(get_tasks_by_status(store, StatusOfColumn(app.selected_column)))
          = <<3, 4, 3>>
    /\ app.selected_task = Some(2)
    /\ app.dragging_task = Some(<<3, app.selected_column>>)

\* C17: Esc pressed in AddTask, EditStep, EditTaskName or ConfirmDelete sets
\* the mode to Navigate and empties that mode's buffers (the form; the edit
\* text and editing id; the pending-delete id) without touching the store or
\* the data file; and no step that stays outside Navigate changes the store,
\* so the store at Esc is the store the mode was entered with.
C17_EscStep ==
    /\ (pc = "board" /\ pc' = "board"
          /\ app.mode # "Navigate" /\ app'.mode # "Navigate"
          => store' = store /\ disk' = disk)
    /\ (last'.ev = "Esc" =>
          /\ app.mode # "Navigate"
          /\ app'.mode = "Navigate"
          /\ store' = store
          /\ disk' = disk
          /\ (app.mode = "AddTask" => app'.form = TaskFormDefault)
          /\ (app.mode \in {"EditStep", "EditTaskName"} =>
                app'.edit_buffer = <<>> /\ app'.editing_task_id = None)
          /\ (app.mode = "ConfirmDelete" => app'.deleting_task_id = None))

C17_EscDiscards == [][C17_EscStep]_vars

\* C17 witness: Esc has just left AddTask, where a description had been
\* typed and a step collected or not, and the store holds a task.
C17_Witness ==
    /\ last.ev = "Esc"
    /\ last.ret = Some("AddTask")
    /\ app.mode = "Navigate"
    /\ app.form = TaskFormDefault
    /\ Len(store.tasks) = 1

\* C18: the board session ends only through the quit command: should_quit
\* becomes true only by the quit key in Navigate mode, and the process leaves
\* the board only with should_quit set.
C18_OnlyQuitEndsStep ==
    /\ (~app.should_quit /\ app'.should_quit =>
          pc = "board" /\ app.mode = "Navigate" /\ last'.ev = "key")
    /\ (pc = "board" /\ pc' # "board" => app.should_quit)

C18_OnlyQuitEnds == [][C18_OnlyQuitEndsStep]_vars

\* C19: load never fails: without a file, or with content that is not the
\* JSON of a store, the store is empty with next_id 1; otherwise it holds the
\* file's tasks in order and the file's next_id, each task with its fields,
\* no completed flag, and the status Complete / NotStarted where the file
\* carried completed = true / false (whatever status was stored) and the
\* stored status where it carried none.
C19_Parseable(content) ==
    /\ "tasks" \in DOMAIN content
    /\ "next_id" \in DOMAIN content
    /\ \A i \in 1..Len(content.tasks) :
          \A f \in {"id", "description", "steps", "current_step"} :
              f \in DOMAIN content.tasks[i]

C19_Loaded(r, t) ==
    /\ t.id = r.id
    /\ t.description = r.description
    /\ t.steps = r.steps
    /\ t.current_step = r.current_step
    /\ t.completed = None
    /\ IF "completed" \in DOMAIN r /\ r.completed # None
       THEN t.status = IF r.completed = Some(TRUE) THEN Complete ELSE NotStarted
       ELSE "status" \in DOMAIN r => t.status = r.status

C19_LoadStep ==
    pc = "shell" /\ pc' = "main" =>
        /\ last'.ev = "load"
        /\ IF disk = NoFile THEN store' = [tasks |-> <<>>, next_id |-> 1]
           ELSE IF ~C19_Parseable(disk[1])
           THEN store' = [tasks |-> <<>>, next_id |-> 1]
           ELSE /\ store'.next_id = disk[1].next_id
                /\ Len(store'.tasks) = Len(disk[1].tasks)
                /\ \A i \in 1..Len(store'.tasks) :
                      C19_Loaded(disk[1].tasks[i], store'.tasks[i])

C19_Load == [][C19_LoadStep]_vars

\* C19 witness: the store was loaded from a file of two tasks, the first
\* stored as Complete with completed = false, the second as Blocked without
\* the flag: the first is NotStarted, the second still Blocked.
C19_Witness ==
    /\ pc = "main"
    /\ last.ev = "load"
    /\ disk # NoFile
    /\ C19_Parseable(disk[1])
    /\ Len(disk[1].tasks) = 2
    /\ {"status", "completed"} \subseteq DOMAIN disk[1].tasks[1]
    /\ disk[1].tasks[1].status = Complete
    /\ disk[1].tasks[1].completed = Some(FALSE)
    /\ DOMAIN disk[1].tasks[2] = {"id", "description", "steps", "current_step", "status"}
    /\ disk[1].tasks[2].status = Blocked
    /\ store.tasks[1].status = NotStarted
    /\ store.tasks[2].status = Blocked

\* C20 as stated: Enter on the submit field, whatever the form holds, appends
\* a task with the description buffer, the pending steps, current_step 0
\* and status NotStarted, saves, clears the form and goes to Navigate.
C20_Submitted ==
    /\ store' = [tasks |-> Append(store.tasks,
                     [id |-> store.next_id,
                      description |-> app.form.description,
                      steps |-> app.form.steps,
                      current_step |-> 0,
                      status |-> NotStarted,
                      completed |-> None]),
                 next_id |-> store.next_id + 1]
    /\ disk' # NoFile
    /\ load(disk') = store'
    /\ app' = [app EXCEPT !.mode = "Navigate", !.form = TaskFormDefault]

C20_SubmitStep ==
    FormEnter(TextMaxId, TextMaxSteps) /\ app.form.active_field = 2
        => C20_Submitted

C20_Submit == [][C20_SubmitStep]_vars

\* C20 amended: that holds when the description buffer is not empty; with an
\* empty description Enter on the submit field changes nothing and the mode
\* stays AddTask.
C20_SubmitNonEmptyStep ==
    FormEnter(TextMaxId, TextMaxSteps) /\ app.form.active_field = 2 =>
        IF app.form.description # <<>>
        THEN C20_Submitted
        ELSE store' = store /\ disk' = disk /\ app' = app

C20_SubmitNonEmpty == [][C20_SubmitNonEmptyStep]_vars

\* C20 witness: Enter has just submitted the form: the store holds the new
\* task with the one pending step, saved, and the board is back in Navigate
\* with an empty form.
C20_Witness ==
    /\ pc = "board"
    /\ last.ev = "Enter"
    /\ app.mode = "Navigate"
    /\ app.form = TaskFormDefault
    /\ Len(store.tasks) = 1
    /\ Len(store.tasks[1].steps) = 1
    /\ store.tasks[1].current_step = 0
    /\ store.tasks[1].status = NotStarted
    /\ load(disk) = store

\* C21 as stated: after Left or Right in Navigate mode the selected column is
\* the one a lane over, clamped to 0..3, and selected_task is none.
C21_Lane(col, key) ==
    IF key = "Left" THEN (IF col > 0 THEN col - 1 ELSE 0)
    ELSE (IF col < 3 THEN col + 1 ELSE 3)

C21_LeftRightStep ==
    last'.ev \in {"Left", "Right"} =>
        /\ app.mode = "Navigate"
        /\ app'.selected_column \in 0..3
        /\ app'.selected_column = C21_Lane(app.selected_column, last'.ev)
        /\ app'.selected_task = None

C21_LeftRight == [][C21_LeftRightStep]_vars

\* C21 amended: selected_task is none when the column moved; at lane 0 for
\* Left and lane 3 for Right nothing changes, selected_task included.
C21_LeftRightMovedStep ==
    last'.ev \in {"Left", "Right"} =>
        /\ app.mode = "Navigate"
        /\ app'.selected_column \in 0..3
        /\ app'.selected_column = C21_Lane(app.selected_column, last'.ev)
        /\ IF app'.selected_column # app.selected_column
           THEN app' = [app EXCEPT !.selected_column = app'.selected_column,
                                   !.selected_task = None]
           ELSE app' = app
        /\ store' = store

C21_LeftRightMoved == [][C21_LeftRightMovedStep]_vars

\* C21 witness: Right was pressed at lane 3 with a task selected: the lane
\* is still 3 and the task still selected.
C21_Witness ==
    /\ last.ev = "Right"
    /\ app.selected_column = 3
    /\ app.selected_task = Some(0)

\* C22: in every state of the board, a press inside a column on its top
\* border row, or below the span of its last card, begins no drag session
\* and selects no task: the drag state is as it was and the task indicated
\* by (selected_column, selected_task) afterwards, if any, is the one
\* indicated before.
C22_SelectedId(a) ==
    LET tasks == get_tasks_by_status(store, StatusOfColumn(a.selected_column)) IN
    IF a.selected_task # None /\ a.selected_task[1] < Len(tasks)
    THEN Some(tasks[a.selected_task[1] + 1].id)
    ELSE None

C22_NoCardNoDrag ==
    \A c \in 0..3, y \in PointerYs :
        LET area == column_areas[c]
            tasks == get_tasks_by_status(store, StatusOfColumn(c))
            span == C16_Sum(C16_Heights(tasks), Len(tasks))
            a == mouse_down(area.x, y)
        IN  InRect(area.x, y, area) /\ (y = area.y \/ y - (area.y + 1) >= span) =>
                /\ a.dragging_task = app.dragging_task
                /\ a.drag_target_column = app.drag_target_column
                /\ C22_SelectedId(a) \in {None, C22_SelectedId(app)}

\* C23: in every state of the board, a press that resolves to a card leaves
\* a drag session whose dragged id is the id of the card under the pointer
\* and whose origin column is the column pressed, which is the column of
\* that task's status, and leaves (selected_column, selected_task)
\* indicating exactly the dragged task.
C23_ColumnOfStatus(status) ==
    CASE status = NotStarted -> 0
      [] status = InProgress -> 1
      [] status = Blocked -> 2
      [] status = Complete -> 3

C23_PressOnCard ==
    \A x \in PointerXs, y \in PointerYs :
        HitsCard(x, y) =>
            LET c == CHOOSE c \in 0..3 : InRect(x, y, column_areas[c])
                tasks == get_tasks_by_status(store, StatusOfColumn(c))
                rel == IF y > column_areas[c].y THEN y - (column_areas[c].y + 1) ELSE 0
                k == C16_CardAt(C16_Heights(tasks), rel)
                a == mouse_down(x, y)
            IN  /\ k # 0
                /\ a.dragging_task = Some(<<tasks[k].id, c>>)
                /\ HasTask(store, tasks[k].id)
                /\ C23_ColumnOfStatus(TaskOf(store, tasks[k].id).status) = c
                /\ a.selected_column = c
                /\ C22_SelectedId(a) = Some(tasks[k].id)

\* C23 witness: a press has just picked up task 3, the second card of the
\* InProgress column, and the selection indicates it.
C23_Witness ==
    /\ last.ev = "Down"
    /\ app.dragging_task = Some(<<3, 1>>)
    /\ app.selected_task = Some(1)
    /\ C22_SelectedId(app) = Some(3)

\* C24: when handle_mouse receives a pointer-up, the completion chime fires
\* exactly when a drag session is open, its target column is 3 and differs
\* from the origin column, and the dragged task is still in the store, and
\* then the task's status is Complete afterwards; a pointer-up without a
\* session, onto the origin column or onto columns 0-2 fires none.
C24_DropChimeStep ==
    /\ pc = "board"
    /\ ~app.should_quit
    /\ app.mode = "Navigate"
    /\ last'.ev = "Up"
    =>  LET session == app.dragging_task # None
            id == app.dragging_task[1][1]
            origin == app.dragging_task[1][2]
            target == app.drag_target_column
        IN  /\ last'.chime <=> /\ session
                               /\ target = Some(3)
                               /\ origin # 3
                               /\ HasTask(store, id)
            /\ last'.chime => TaskOf(store', id).status = Complete
            /\ ~session => ~last'.chime
            /\ (session /\ target = Some(origin)) => ~last'.chime
            /\ (session /\ target # None /\ target[1] \in 0..2) => ~last'.chime

C24_DropChime == [][C24_DropChimeStep]_vars

\* C24 witness: a drop onto column 3 has just fired the chime and the
\* selection followed the card there.
C24_Witness ==
    /\ last.ev = "Up"
    /\ last.chime
    /\ app.selected_column = 3
    /\ app.dragging_task = None
    /\ \E k \in 1..Len(store.tasks) : store.tasks[k].status = Complete

\* C25: in ConfirmDelete mode the affirmative key removes exactly the
\* pending task (the other tasks, their order and the id counter stay),
\* clears selected_task and returns to Navigate; the negative key or Esc
\* returns to Navigate with the store as it was; any other key changes
\* neither the App nor the store.
C25_ConfirmStep ==
    pc = "board" /\ app.mode = "ConfirmDelete" =>
        /\ last'.ev = "y" =>
              /\ app.deleting_task_id # None
              /\ HasTask(store, app.deleting_task_id[1])
              /\ store'.tasks = SelectSeq(store.tasks,
                                    LAMBDA t : t.id # app.deleting_task_id[1])
              /\ Len(store'.tasks) = Len(store.tasks) - 1
              /\ store'.next_id = store.next_id
              /\ app'.selected_task = None
              /\ app'.mode = "Navigate"
        /\ last'.ev = "Esc" => app'.mode = "Navigate" /\ store' = store
        /\ last'.ev = "key" => app' = app /\ store' = store

C25_Confirm == [][C25_ConfirmStep]_vars

\* C25 witness: the affirmative key has just removed task 1 of two, and
\* task 2 is what the store holds.
C25_Witness ==
    /\ last.ev = "y"
    /\ app.mode = "Navigate"
    /\ app.selected_task = None
    /\ Len(store.tasks) = 1
    /\ store.tasks[1].id = 2
    /\ store.next_id = 3

\* C26: an edit mode is entered for the selected task and holds that task
\* and the store until it is left; Enter with a non-empty buffer then
\* replaces only the edited field of that task (the text of its current
\* step in EditStep, its description in EditTaskName) and nothing else in
\* the store, Enter with an empty buffer leaves the store as it was, and
\* either way the mode is Navigate and the buffer empty afterwards.
C26_EditModes == {"EditStep", "EditTaskName"}

C26_CommitStep ==
    pc = "board" =>
        /\ (app.mode = "Navigate" /\ app'.mode \in C26_EditModes) =>
              /\ get_selected_task_id # None
              /\ app'.editing_task_id = get_selected_task_id
              /\ store' = store
        /\ (app.mode \in C26_EditModes /\ app'.mode \in C26_EditModes) =>
              /\ app'.mode = app.mode
              /\ app'.editing_task_id = app.editing_task_id
              /\ store' = store
        /\ (app.mode \in C26_EditModes /\ last'.ev = "Enter") =>
              /\ app.editing_task_id # None
              /\ HasTask(store, app.editing_task_id[1])
              /\ app'.mode = "Navigate"
              /\ app'.edit_buffer = <<>>
              /\ LET id == app.editing_task_id[1]
                     t == TaskOf(store, id)
                 IN  IF app.edit_buffer = <<>>
                     THEN store' = store
                     ELSE /\ OthersUnchanged(id)
                          /\ HasTask(store', id)
                          /\ app.mode = "EditStep" =>
                                /\ t.current_step < Len(t.steps)
                                /\ TaskOf(store', id) =
                                      [t EXCEPT !.steps[t.current_step + 1] = app.edit_buffer]
                          /\ app.mode = "EditTaskName" =>
                                TaskOf(store', id) = [t EXCEPT !.description = app.edit_buffer]

C26_Commit == [][C26_CommitStep]_vars

\* C26 witness: Enter has just replaced the second step of task 2, the
\* current one, and task 1 and the rest of task 2 are as they began.
C26_Witness ==
    /\ last.ev = "Enter"
    /\ app.mode = "Navigate"
    /\ app.edit_buffer = <<>>
    /\ Len(store.tasks) = 2
    /\ store.tasks[1].description = <<"a">>
    /\ store.tasks[2].description = <<"a">>
    /\ store.tasks[2].current_step = 1
    /\ store.tasks[2].steps = << <<"a">>, <<"x">>, <<"a">> >>

\* C27: the force-InProgress key, with a task indicated by the selection,
\* sets that task's status to InProgress whatever it was (Blocked and
\* Complete included), leaves its steps, current_step and every other task
\* as they were and clears selected_task; with no task indicated it changes
\* neither the store nor the App.
C27_ForceStep ==
    pc = "board" /\ app.mode = "Navigate" /\ last'.ev = "i" =>
        LET sel == get_selected_task_id IN
        IF sel # None
        THEN /\ HasTask(store, sel[1])
             /\ HasTask(store', sel[1])
             /\ TaskOf(store', sel[1]) = [TaskOf(store, sel[1]) EXCEPT !.status = InProgress]
             /\ OthersUnchanged(sel[1])
             /\ app' = [app EXCEPT !.selected_task = None]
        ELSE store' = store /\ app' = app

C27_Force == [][C27_ForceStep]_vars

\* C27 witness: the key has just brought a task with steps back from
\* Complete, its position in the steps kept, next to a Blocked task.
C27_Witness ==
    /\ last.ev = "i"
    /\ app.selected_column = 3
    /\ app.selected_task = None
    /\ Len(store.tasks) = 2
    /\ store.tasks[1].status = InProgress
    /\ store.tasks[1].current_step = 2
    /\ Len(store.tasks[1].steps) = 3
    /\ store.tasks[2].status = Blocked

\* C28: the undo key lowers the selected task's current_step by exactly 1
\* when it is above 0 and changes nothing when it is 0 or no task is
\* indicated; status, steps, the other tasks and the App stay. An advance
\* that only incremented current_step keeps the task selected, so the undo
\* that follows it leaves the store from which that advance started: the
\* advance of the store after the undo is the store before the undo.
C28_UndoStep ==
    pc = "board" /\ app.mode = "Navigate" =>
        LET sel == get_selected_task_id IN
        /\ last'.ev = "u" =>
              /\ app' = app
              /\ IF sel # None /\ TaskOf(store, sel[1]).current_step > 0
                 THEN /\ HasTask(store', sel[1])
                      /\ TaskOf(store', sel[1]) =
                            [TaskOf(store, sel[1]) EXCEPT !.current_step = @ - 1]
                      /\ OthersUnchanged(sel[1])
                 ELSE store' = store
        /\ (last'.ev = "u" /\ last.ev = "d" /\ ~last.chime /\ sel # None) =>
              /\ TaskOf(store, sel[1]).current_step > 0
              /\ complete_task(store', sel[1]).store = store
              /\ TaskOf(store', sel[1]).current_step + 1 = TaskOf(store, sel[1]).current_step
        /\ (last'.ev = "d" /\ ~last'.chime /\ sel # None) =>
              /\ TaskOf(store', sel[1]) =
                    [TaskOf(store, sel[1]) EXCEPT !.current_step = @ + 1]
              /\ OthersUnchanged(sel[1])
              /\ app' = app

C28_Undo == [][C28_UndoStep]_vars

\* C28 witness: the undo key has just taken the selected task, which has
\* three steps and is not started, from its last step back to the middle
\* one.
C28_Witness ==
    /\ last.ev = "u"
    /\ get_selected_task_id # None
    /\ TaskOf(store, get_selected_task_id[1]).current_step = 1
    /\ TaskOf(store, get_selected_task_id[1]).status = NotStarted
    /\ Len(TaskOf(store, get_selected_task_id[1]).steps) = 3

\* C29: in Navigate mode, when the selected column's list is not empty, an
\* up or down key leaves selected_task at a position of that list: down
\* from the last position stays there, up from position 0 stays at 0; when
\* the list is empty the key leaves selected_task as it was.
C29_UpDownStep ==
    pc = "board" /\ app.mode = "Navigate" /\ last'.ev \in {"Up_key", "Down_key"} =>
        LET n == Len(get_tasks_by_status(store, current_status)) IN
        IF n = 0
        THEN app'.selected_task = app.selected_task
        ELSE /\ app'.selected_task # None
             /\ app'.selected_task[1] \in 0..(n - 1)
             /\ (last'.ev = "Down_key" /\ app.selected_task = Some(n - 1)) =>
                    app'.selected_task = Some(n - 1)
             /\ (last'.ev = "Up_key" /\ app.selected_task = Some(0)) =>
                    app'.selected_task = Some(0)

C29_UpDown == [][C29_UpDownStep]_vars

\* C30: a pointer move changes nothing but drag_target_column, and that
\* only during a drag session: the new target is the column whose
\* horizontal extent holds the pointer's x, or the old target when no
\* column does; the store, the data file, the dragged id, the origin column
\* and the selection stay, and without a session nothing changes.
C30_Target(x) ==
    LET Holds(c) == /\ column_areas[c].x <= x
                    /\ x < column_areas[c].x + column_areas[c].width
    IN  IF \E c \in 0..3 : Holds(c)
        THEN Some(CHOOSE c \in 0..3 : Holds(c))
        ELSE app.drag_target_column

C30_MoveStep ==
    last'.ev = "Drag" =>
        /\ store' = store
        /\ disk' = disk
        /\ pc' = pc
        /\ app' = [app EXCEPT !.drag_target_column = app'.drag_target_column]
        /\ app.dragging_task = None => app' = app
        /\ \E x \in PointerXs : app'.drag_target_column = C30_Target(x)

C31_FormStep ==
    pc = "board" /\ app.mode = "AddTask" =>
        /\ (last'.ev = "Enter" /\ app.form.active_field = 0) =>
              /\ app' = [app EXCEPT !.form.active_field = 1]
              /\ store' = store /\ disk' = disk
        /\ (last'.ev = "Enter" /\ app.form.active_field = 1) =>
              /\ app' = IF app.form.current_step_input # <<>>
                        THEN [app EXCEPT
                                !.form.steps = app.form.steps \o <<app.form.current_step_input>>,
                                !.form.current_step_input = <<>>]
                        ELSE app
              /\ app'.form.active_field = 1
              /\ store' = store /\ disk' = disk
        /\ last'.ev = "Tab" =>
              /\ app' = [app EXCEPT !.form.active_field =
                            CASE app.form.active_field = 0 -> 1
                              [] app.form.active_field = 1 -> 2
                              [] app.form.active_field = 2 -> 0]
              /\ store' = store /\ disk' = disk

C31_Form == [][C31_FormStep]_vars

\* C31 witness: Enter has just appended a second, different step after the
\* first, and the focus is still on step entry with the input empty.
C31_Witness ==
    /\ last.ev = "Enter"
    /\ app.mode = "AddTask"
    /\ app.form.active_field = 1
    /\ app.form.current_step_input = <<>>
    /\ app.form.steps = << <<"x">>, <<"y">> >>

\* C32: in every state of the board, selected_task is either none or a
\* position of the selected column's current list.
C32_SelectionValid ==
    pc = "board" =>
        \/ app.selected_task = None
        \/ app.selected_task[1] < Len(get_tasks_by_status(store, current_status))

\* C33: while a drag session is open, the dragged task is in the store and
\* its status is the one the session's origin column stands for.
C33_DragConsistent ==
    (pc = "board" /\ app.dragging_task # None) =>
        /\ HasTask(store, app.dragging_task[1][1])
        /\ TaskOf(store, app.dragging_task[1][1]).status =
              C7_TargetStatus(app.dragging_task[1][2])

\* C34: in every state of the board, a press inside a column that resolves
\* to a card falls on a row where the frame drawn from this state shows
\* that card: the card fits the column's inner height, so render_column
\* drew it, and the row is one of the card's rows, never a border row of
\* the column.
C34_DrawnAt(tasks, k, area, y) ==
    /\ CardDrawn(tasks, k, saturating_sub(area.height, 2))
    /\ y >= area.y + 1 + CardTop(tasks, k)
    /\ y < area.y + 1 + CardTop(tasks, k) + card_height(tasks[k])
    /\ y < area.y + area.height - 1

C34_HitAgreesWithRender ==
    pc = "board" =>
        \A c \in 0..3, y \in PointerYs :
            LET area == column_areas[c]
                tasks == get_tasks_by_status(store, StatusOfColumn(c))
                hit == HitCard(tasks, saturating_sub(y, area.y + 1))
            IN  (InRect(area.x, y, area) /\ hit # None) =>
                    C34_DrawnAt(tasks, hit[1][1] + 1, area, y)

\* C35: when handle_mouse receives the release of the button at a cell
\* outside every column rectangle, the store is left as it was, whatever
\* the drag session and its target column were.
C35_ReleaseOutsideStep ==
    /\ pc = "board"
    /\ ~app.should_quit
    /\ app.mode = "Navigate"
    /\ last'.ev = "Up"
    /\ last'.ret = None
    => store' = store

C35_ReleaseOutside == [][C35_ReleaseOutsideStep]_vars

\* C36: a pointer event (press, move, release) that arrives while the mode
\* is AddTask, EditStep, EditTaskName or ConfirmDelete leaves the App
\* (mode, form, edit buffer, selection, drag state), the store and the data
\* file as they were.
C36_PointerIgnoredStep ==
    /\ pc = "board"
    /\ app.mode \in {"AddTask", "EditStep", "EditTaskName", "ConfirmDelete"}
    /\ last'.ev \in {"Down", "Drag", "Up"}
    => app' = app /\ store' = store /\ disk' = disk /\ pc' = pc

C36_PointerIgnored == [][C36_PointerIgnoredStep]_vars

\* C36 witness: a release has just arrived in AddTask mode with text in the
\* form, and the drag session opened before the form is still there.
C36_Witness ==
    /\ last.ev = "Up"
    /\ app.mode = "AddTask"
    /\ app.form.description # <<>>
    /\ app.dragging_task # None

\* C37: whenever the mode is Navigate the add-task form is in its default
\* state (empty description, no pending steps, empty step input, focus on
\* the description), the edit buffer is empty and the editing id and the
\* pending-delete id are none.
C37_NavigateClean ==
    app.mode = "Navigate" =>
        /\ app.form.description = <<>>
        /\ app.form.steps = <<>>
        /\ app.form.current_step_input = <<>>
        /\ app.form.active_field = 0
        /\ app.edit_buffer = <<>>
        /\ app.editing_task_id = None
        /\ app.deleting_task_id = None

\* C37 witness: Esc has just left the description editor and the board is
\* back in Navigate mode with a task still selected.
C37_Witness ==
    /\ last.ev = "Esc"
    /\ last.ret = Some("EditTaskName")
    /\ app.mode = "Navigate"
    /\ app.selected_task # None
    /\ app.edit_buffer = <<>>

C39_WebPersisted ==
    (pc = "serving" /\ last.ev # "serve") =>
        web_load_from_file(disk) = store

\* C40: in every state of a board session that has not been quit, the keys
\* Esc and then quit end it: in Navigate mode Esc is handled and changes
\* nothing and the quit key is handled and sets should_quit; in every other
\* mode Esc is handled and leaves the board in Navigate mode, not quit.
C40_Esc == FormEsc \/ EditEsc \/ ConfirmNo

C40_QuitInTwoKeys ==
    (pc = "board" /\ ~app.should_quit) =>
        IF app.mode = "Navigate"
        THEN /\ ENABLED (NavOther /\ app' = app)
             /\ ENABLED (NavQuit /\ app'.should_quit)
        ELSE ENABLED (C40_Esc /\ pc' = "board" /\ app'.mode = "Navigate"
                              /\ ~app'.should_quit)

====
